---- MODULE Spec2Model ----
(***************************************************************************)
(* A model of the fasttrade trading core: the Decimal value type, the      *)
(* order store of TradingCore with its pre-trade validation and risk       *)
(* gating, the fill accounting (update_position / update_balance) and the  *)
(* event queue drained by the event-processing thread.                     *)
(*                                                                         *)
(* Decimal is a 64-bit signed integer holding the value times 10^18.  TLC  *)
(* integers are 32 bits wide, so the representation is kept in shape but   *)
(* scaled: the word is INT_BITS wide and holds the value times             *)
(* SCALE_FACTOR.  2^(INT_BITS-1) / SCALE_FACTOR = 10.24 here, against      *)
(* 2^63 / 10^18 = 9.22 in the source: in both, the representable range is  *)
(* about ten units wide on each side of zero, the product of two           *)
(* representations leaves the word long before the product of the values   *)
(* leaves the range, and every operator wraps exactly where the C++        *)
(* expression it models wraps.  A Decimal written d.dd below is the        *)
(* integer ddd (1.00 is 100).                                              *)
(***************************************************************************)
EXTENDS Integers, Sequences, FiniteSets, TLC

(***************************************************************************)
(* Decimal (include/fasttrade/utils/decimal.hpp, src/utils/decimal.cpp)    *)
(***************************************************************************)
SCALE_FACTOR == 100

INT_BITS == 11

Modulus == 2 ^ INT_BITS

\* The value an int64_t expression leaves in the word: two's complement
\* wrap-around, the result the builds of this repository produce on overflow.
Wrap(x) ==
    LET m == x % Modulus
    IN  IF m >= Modulus \div 2 THEN m - Modulus ELSE m

\* C++ integer division: the quotient truncated toward zero.
TruncDiv(a, b) ==
    LET q == (IF a < 0 THEN -a ELSE a) \div (IF b < 0 THEN -b ELSE b)
    IN  IF (a < 0) = (b < 0) THEN q ELSE -q

\* operator+ / operator+=
Decimal_add(a, b) == Wrap(a + b)

\* operator- (binary) / operator-=
Decimal_sub(a, b) == Wrap(a - b)

\* operator*
Decimal_mul(a, b) == Wrap(TruncDiv(Wrap(a * b), SCALE_FACTOR))

\* operator/ (the callers guard b # 0)
Decimal_div(a, b) == Wrap(TruncDiv(Wrap(a * SCALE_FACTOR), b))

\* operator- (unary): return Decimal(-value_), which goes through the
\* int64_t constructor and so multiplies by SCALE_FACTOR once more.
Decimal_neg(a) == Wrap(Wrap(-a) * SCALE_FACTOR)

\* abs()
Decimal_abs(a) == IF a < 0 THEN Wrap(-a) ELSE a

Decimal_is_zero(a) == a = 0

Decimal_is_negative(a) == a < 0

\* Digits the fractional part is padded to by to_string (18 in the source,
\* the number of decimal places of SCALE_FACTOR).
FRAC_DIGITS == 2

RECURSIVE StripTrailingZeros(_)
\* while (!frac_str.empty() && frac_str.back() == '0') frac_str.pop_back()
StripTrailingZeros(digits) ==
    IF digits # << >> /\ digits[Len(digits)] = 0
    THEN StripTrailingZeros(SubSeq(digits, 1, Len(digits) - 1))
    ELSE digits

\* Decimal::to_string: the text as <<sign written, integer part, digits
\* after the point>>; no point is written when the last component is empty.
Decimal_to_string(a) ==
    IF a = 0 THEN <<FALSE, 0, << >> >>
    ELSE LET negative == a < 0
             abs_value == IF negative THEN Wrap(-a) ELSE a
             integer_part == TruncDiv(abs_value, SCALE_FACTOR)
             fractional_part == abs_value - integer_part * SCALE_FACTOR
         IN  <<negative, integer_part,
               IF fractional_part > 0
               THEN StripTrailingZeros([i \in 1 .. FRAC_DIGITS |-> (fractional_part \div (10 ^ (FRAC_DIGITS - i))) % 10])
               ELSE << >> >>

(***************************************************************************)
(* Orders, trades, risk limits                                             *)
(***************************************************************************)
TerminalStatus == {"FILLED", "CANCELLED", "REJECTED", "EXPIRED"}

\* The order the inputs are variations of: BUY 1.00 BTC-USDT at 1.00.
BaseOrder ==
    [client_order_id |-> "a", trading_pair |-> "BTC-USDT", side |-> "BUY",
     type |-> "LIMIT", price |-> 100, quantity |-> 100,
     filled_quantity |-> 0, status |-> "PENDING"]

\* Orders handed to submit_order: the base order and every single-field
\* variation the validation, the risk gate and the store distinguish.
OrderInputs ==
    {BaseOrder}
    \cup {[BaseOrder EXCEPT !.client_order_id = i] : i \in {"", "b"}}
    \cup {[BaseOrder EXCEPT !.trading_pair = ""]}
    \cup {[BaseOrder EXCEPT !.quantity = q] : q \in {0, -100, 600}}
    \cup {[BaseOrder EXCEPT !.price = p] : p \in {0, -100}}
    \cup {[BaseOrder EXCEPT !.type = "MARKET", !.price = 0]}
    \cup {[BaseOrder EXCEPT !.filled_quantity = 200]}
    \cup {[BaseOrder EXCEPT !.status = s] : s \in {"FILLED"}}

\* Orders handed to submit_order next to fills: both sides, two sizes.
FillOrderInputs ==
    {[BaseOrder EXCEPT !.side = s, !.quantity = q] :
        s \in {"BUY", "SELL"}, q \in {100, 600}}

OrderIds == {o.client_order_id : o \in OrderInputs}

\* RiskLimits() as TradingCore() leaves it: zero Decimals, the three
\* enable flags at their default member initialisers.
DefaultRiskLimits ==
    [max_position_size |-> 0, max_order_size |-> 0, max_daily_loss |-> 0,
     enable_position_limits |-> TRUE, enable_order_limits |-> TRUE,
     enable_loss_limits |-> TRUE]

\* Limits handed to set_risk_limits: orders up to 1.00, and orders up to
\* 9.00 with the loss limit switched off.
RiskLimitInputs ==
    { [max_position_size |-> 900, max_order_size |-> 100, max_daily_loss |-> 0,
       enable_position_limits |-> TRUE, enable_order_limits |-> TRUE,
       enable_loss_limits |-> TRUE],
      [max_position_size |-> 900, max_order_size |-> 900, max_daily_loss |-> 100,
       enable_position_limits |-> TRUE, enable_order_limits |-> TRUE,
       enable_loss_limits |-> FALSE] }

NoCallbacks ==
    [on_order_cancelled |-> FALSE, on_order_rejected |-> FALSE,
     on_position_update |-> FALSE, on_balance_update |-> FALSE,
     on_market_data |-> FALSE]

AllCallbacks ==
    [on_order_cancelled |-> TRUE, on_order_rejected |-> TRUE,
     on_position_update |-> TRUE, on_balance_update |-> TRUE,
     on_market_data |-> TRUE]

(***************************************************************************)
(* Bounds of the model                                                     *)
(***************************************************************************)
\* Longest event queue explored (the queue of the source is unbounded).
MaxQueue == 2

\* Most fills (update_position / update_balance calls) in one behaviour.
MaxFills == 2

\* Most calls begun on the OrderBook in one behaviour.
MaxCalls == 2

\* Most callbacks registered on the OrderBook.
MaxListeners == 2

\* Last reading of std::chrono::high_resolution_clock explored.
MaxTime == 3

\* Most schedule_once / schedule_recurring calls in one behaviour.
MaxScheduled == 2

(***************************************************************************)
(* State of one TradingCore                                                *)
(***************************************************************************)
VARIABLES
    active_orders_,   \* std::map client_order_id -> LimitOrder
    positions_,       \* std::map symbol -> Position
    balances_,        \* std::map currency -> Balance
    daily_pnl_,       \* Decimal
    total_pnl_,       \* Decimal
    risk_limits_,     \* RiskLimits
    callbacks_,       \* TradingCallbacks: which callbacks are installed
    event_queue_,     \* std::queue of queued listener invocations
    running_,         \* std::atomic<bool>
    fills,            \* number of fills applied so far (bounded by MaxFills)
    last,             \* the call that produced this state and what it returned
    snapshot,         \* the texts the caller keeps from export_state(): none or the last
    limit_order,      \* one LimitOrder object in the hands of its owner
    bids_,            \* OrderBook::bids_, the entries_ of the bid side
    asks_,            \* OrderBook::asks_, the entries_ of the ask side
    last_update_id_,  \* OrderBook::last_update_id_
    update_callbacks_, \* OrderBook::update_callbacks_
    writers,          \* per writing thread: where it stands in its call
    reader,           \* the thread calling best_bid() / best_ask()
    calls_begun,      \* number of calls begun on the book (bounded by MaxCalls)
    epoch,            \* the book when its writers were last all idle, and the calls begun since
    event_processor_, \* number of threads running TradingCore::process_events
    clock_,           \* the Clock: mode_, running_, current_time_, events_
    timer,            \* the thread running Clock::timer_loop (timer_thread_)
    wall,             \* the reading of std::chrono::high_resolution_clock
    scheduled,        \* the schedule_once / schedule_recurring calls made so far
    delivered,        \* the scheduled callbacks invoked so far, in order
    observed_now,     \* what now() returned last to the caller that watches it, -1 before
    instance_,        \* GlobalClock::instance_: << >> or <<the Clock>>
    stamped,          \* the timestamp written last, with the core's now() at that moment
    state_mutex_,     \* TradingCore::state_mutex_ (std::shared_mutex)
    event_mutex_,     \* TradingCore::event_mutex_: the thread holding it, or "none"
    callers,          \* per thread calling the TradingCore: where it stands in its call
    order_books_,     \* OrderBookManager::order_books_: the symbols that have an OrderBook
    tick              \* the thread running the market tick callback

vars ==
    <<state_mutex_, event_mutex_, callers, order_books_, tick,
      active_orders_, positions_, balances_, daily_pnl_, total_pnl_,
      risk_limits_, callbacks_, event_queue_, running_, fills, last,
      snapshot, limit_order, bids_, asks_, last_update_id_, update_callbacks_,
      writers, reader, calls_begun, epoch, event_processor_, clock_, timer,
      wall, scheduled, delivered, observed_now, instance_, stamped>>

\* The variables of one OrderBook and of the threads using it.
book_vars ==
    <<bids_, asks_, last_update_id_, update_callbacks_, writers, reader,
      calls_begun, epoch>>

\* The variables of the TradingCore, its caller and the LimitOrder.
core_vars ==
    <<active_orders_, positions_, balances_, daily_pnl_, total_pnl_,
      risk_limits_, callbacks_, event_queue_, running_, fills, last,
      snapshot, limit_order>>

\* The threads start() and stop() create and join, with the Clock.
dispatch_vars == <<event_processor_, clock_, timer>>

\* The time source and what the callers of the Clock have seen of it.
time_vars == <<wall, scheduled, delivered, observed_now, instance_, stamped>>

\* The two locks of the TradingCore and the threads calling it.
lock_vars == <<state_mutex_, event_mutex_, callers>>

\* The OrderBookManager and the thread of the market tick callback.
market_vars == <<order_books_, tick>>

\* The same without the record of the last call.
store_vars ==
    <<active_orders_, positions_, balances_, daily_pnl_, total_pnl_,
      risk_limits_, callbacks_, event_queue_, running_, fills, snapshot,
      limit_order>>

\* std::map helpers
EmptyMap == [k \in {} |-> 0]

MapPut(m, k, v) == [x \in DOMAIN m \cup {k} |-> IF x = k THEN v ELSE m[x]]

MapErase(m, k) == [x \in DOMAIN m \ {k} |-> m[x]]

Call(op, arg, ret) == [op |-> op, arg |-> arg, ret |-> ret]

\* The caller has not exported anything yet.
NoSnapshot == << >>

\* Threads that call the mutators of the OrderBook.
Writers == {"w1", "w2"}

\* The end() iterator of a side.
End == [price |-> 0, amount |-> 0, update_id |-> 0]

\* The book as OrderBook::OrderBook leaves it.
NewBook == [bids |-> {}, asks |-> {}, last_update_id |-> 0]

\* Threads that call the public interface of the TradingCore.
Callers == {"c1", "c2"}

\* A thread outside any call of the TradingCore.
IdleCaller ==
    [op |-> "", arg |-> << >>, pc |-> "idle", it |-> << >>, pushed |-> 0,
     ret |-> << >>]

\* The thread of the market data feed outside the tick callback.
IdleTick ==
    [pc |-> "idle", symbol |-> "", dangling |-> FALSE, used_destroyed |-> FALSE]

\* The thread of the market tick callback after the OrderBooks of the
\* symbols are destroyed: the reference it holds to one of them dangles
after_destroy(symbols) ==
    IF tick.pc = "holding" /\ tick.symbol \in symbols
    THEN [tick EXCEPT !.dangling = TRUE]
    ELSE tick

\* Clock::Clock(mode): not running, current_time_ read from the
\* high_resolution_clock, nothing scheduled
NewClock(mode, time) ==
    [mode_ |-> mode, running_ |-> FALSE, current_time_ |-> time,
     events_ |-> << >>]

\* No thread runs timer_loop (timer_thread_ is not joinable).
NoTimer == [alive |-> FALSE, pc |-> "sleep", current_time |-> 0, it |-> 1]

\* TradingCore::TradingCore() with a Clock of the mode; the LimitOrder and
\* the OrderBook are freshly constructed
Constructed(mode) ==
    /\ active_orders_ = EmptyMap
    /\ positions_ = EmptyMap
    /\ balances_ = EmptyMap
    /\ daily_pnl_ = 0
    /\ total_pnl_ = 0
    /\ risk_limits_ = DefaultRiskLimits
    /\ callbacks_ = NoCallbacks
    /\ event_queue_ = << >>
    /\ running_ = FALSE
    /\ fills = 0
    /\ last = Call("TradingCore", "", TRUE)
    /\ snapshot = NoSnapshot
    /\ limit_order =
           [client_order_id |-> "a", trading_pair |-> "BTC-USDT",
            side |-> "BUY", type |-> "LIMIT", price |-> 100, quantity |-> 100,
            filled_quantity |-> 0, status |-> "PENDING", executions |-> << >>]
    /\ bids_ = NewBook.bids
    /\ asks_ = NewBook.asks
    /\ last_update_id_ = NewBook.last_update_id
    /\ update_callbacks_ = << >>
    /\ writers =
           [t \in Writers |->
                [pc |-> "idle",
                 call |-> [kind |-> "none", bids |-> << >>, asks |-> << >>,
                           final_update_id |-> 0],
                 todo |-> << >>, applied |-> << >>, invoked |-> << >>]]
    /\ reader =
           [pc |-> "idle", side |-> "bids", iterator |-> End, dangling |-> FALSE,
            valid |-> {}, ret |-> 0, read_freed |-> FALSE, returned |-> FALSE]
    /\ calls_begun = 0
    /\ epoch = [base |-> NewBook, calls |-> << >>]
    /\ event_processor_ = 0
    /\ wall = 0
    /\ clock_ = NewClock(mode, 0)
    /\ timer = NoTimer
    /\ scheduled = << >>
    /\ delivered = << >>
    /\ observed_now = -1
    /\ instance_ = << >>
    /\ stamped = << >>
    /\ state_mutex_ = [writer |-> "none", readers |-> [t \in Callers |-> 0],
                       waiting |-> {}, queued |-> {}]
    /\ event_mutex_ = "none"
    /\ callers = [t \in Callers |-> IdleCaller]
    /\ order_books_ = {}
    /\ tick = IdleTick

\* TradingCore::TradingCore(): clock_ is a Clock(ClockMode::REALTIME)
Init == Constructed("REALTIME")

\* A Clock constructed in any of its modes
InitClock == \E mode \in {"REALTIME", "BACKTEST", "SIMULATION"} : Constructed(mode)


(***************************************************************************)
(* Order management                                                        *)
(***************************************************************************)
\* TradingCore::validate_order
validate_order(order) ==
    /\ order.client_order_id # ""
    /\ order.trading_pair # ""
    /\ ~(Decimal_is_zero(order.quantity) \/ Decimal_is_negative(order.quantity))
    /\ ~(order.type = "LIMIT"
         /\ (Decimal_is_zero(order.price) \/ Decimal_is_negative(order.price)))

\* The position the position check of check_risk_limits computes:
\* current_position (zero when the symbol has none) += / -= order.quantity().
new_position(order) ==
    LET current_position ==
            IF order.trading_pair \in DOMAIN positions_
            THEN positions_[order.trading_pair].quantity
            ELSE 0
    IN  IF order.side = "BUY"
        THEN Decimal_add(current_position, order.quantity)
        ELSE Decimal_sub(current_position, order.quantity)

\* check_risk_limits with the order-size check left out.
check_risk_limits_no_order_size(order) ==
    /\ ~(risk_limits_.enable_position_limits
         /\ Decimal_abs(new_position(order)) > risk_limits_.max_position_size)
    /\ ~(risk_limits_.enable_loss_limits
         /\ daily_pnl_ < Decimal_neg(risk_limits_.max_daily_loss))

\* TradingCore::check_risk_limits
check_risk_limits(order) ==
    /\ ~(risk_limits_.enable_order_limits
         /\ order.quantity > risk_limits_.max_order_size)
    /\ ~(risk_limits_.enable_position_limits
         /\ Decimal_abs(new_position(order)) > risk_limits_.max_position_size)
    /\ ~(risk_limits_.enable_loss_limits
         /\ daily_pnl_ < Decimal_neg(risk_limits_.max_daily_loss))

\* A queued listener invocation: the callback it will call and the copy of
\* the order (its id and status), position or balance the lambda captured.
OrderEvent(kind, order) ==
    [kind |-> kind, id |-> order.client_order_id, status |-> order.status]

KeyEvent(kind, key) == [kind |-> kind, id |-> key, status |-> ""]

\* event_queue_.push under event_mutex_, when the callback is installed.
Enqueue(queue, event) ==
    IF callbacks_[event.kind] THEN Append(queue, event) ELSE queue

\* The model explores queues of at most MaxQueue entries.
QueueHasRoom == Len(event_queue_) < MaxQueue

\* The stored copy with set_status(OrderStatus::OPEN) left out.
order_copy_status_kept(order) == order

\* submit_order: the copy stored in the map, set_status(OrderStatus::OPEN)
order_copy(order) == [order EXCEPT !.status = "OPEN"]

\* TradingCore::submit_order
submit_order(order) ==
    /\ QueueHasRoom
    /\ IF ~validate_order(order)
       THEN /\ UNCHANGED <<active_orders_, event_queue_>>
            /\ last' = Call("submit_order", order, FALSE)
       ELSE IF ~check_risk_limits(order)
       THEN /\ event_queue_' =
                   Enqueue(event_queue_, OrderEvent("on_order_rejected", order))
            /\ UNCHANGED active_orders_
            /\ last' = Call("submit_order", order, FALSE)
       ELSE /\ active_orders_' =
                   MapPut(active_orders_, order.client_order_id, order_copy(order))
            /\ UNCHANGED event_queue_
            /\ last' = Call("submit_order", order, TRUE)
    /\ UNCHANGED <<positions_, balances_, daily_pnl_, total_pnl_, risk_limits_,
                   callbacks_, running_, fills>>

\* cancel() that leaves the status as it was.
LimitOrder_cancel_status_kept(order) == order

\* LimitOrder::cancel
LimitOrder_cancel(order) == [order EXCEPT !.status = "CANCELLED"]

\* TradingCore::cancel_order
cancel_order(client_order_id) ==
    /\ QueueHasRoom
    /\ IF client_order_id \in DOMAIN active_orders_
       THEN LET cancelled == LimitOrder_cancel(active_orders_[client_order_id])
            IN  /\ event_queue_' =
                       Enqueue(event_queue_, OrderEvent("on_order_cancelled", cancelled))
                /\ active_orders_' = MapErase(active_orders_, client_order_id)
                /\ last' = Call("cancel_order", client_order_id, TRUE)
       ELSE /\ UNCHANGED <<active_orders_, event_queue_>>
            /\ last' = Call("cancel_order", client_order_id, FALSE)
    /\ UNCHANGED <<positions_, balances_, daily_pnl_, total_pnl_, risk_limits_,
                   callbacks_, running_, fills>>

\* A modify_order that also stores new_quantity, which the source never reads.
modify_order_with_quantity(client_order_id, new_price, new_quantity) ==
    /\ IF client_order_id \in DOMAIN active_orders_
       THEN /\ active_orders_' =
                   [active_orders_ EXCEPT
                        ![client_order_id].price =
                            IF ~Decimal_is_zero(new_price) THEN new_price ELSE @,
                        ![client_order_id].quantity =
                            IF ~Decimal_is_zero(new_quantity) THEN new_quantity ELSE @]
            /\ last' = Call("modify_order", <<client_order_id, new_price, new_quantity>>, TRUE)
       ELSE /\ UNCHANGED active_orders_
            /\ last' = Call("modify_order", <<client_order_id, new_price, new_quantity>>, FALSE)
    /\ UNCHANGED <<positions_, balances_, daily_pnl_, total_pnl_, risk_limits_,
                   callbacks_, event_queue_, running_, fills>>

\* TradingCore::modify_order (LimitOrder::set_price); new_quantity is not read
modify_order(client_order_id, new_price, new_quantity) ==
    /\ IF client_order_id \in DOMAIN active_orders_
       THEN /\ active_orders_' =
                   IF ~Decimal_is_zero(new_price)
                   THEN [active_orders_ EXCEPT ![client_order_id].price = new_price]
                   ELSE active_orders_
            /\ last' = Call("modify_order", <<client_order_id, new_price, new_quantity>>, TRUE)
       ELSE /\ UNCHANGED active_orders_
            /\ last' = Call("modify_order", <<client_order_id, new_price, new_quantity>>, FALSE)
    /\ UNCHANGED <<positions_, balances_, daily_pnl_, total_pnl_, risk_limits_,
                   callbacks_, event_queue_, running_, fills>>

\* TradingCore::get_active_orders(): a copy of every stored order
get_active_orders == {active_orders_[id] : id \in DOMAIN active_orders_}

\* TradingCore::set_risk_limits
set_risk_limits(limits) ==
    /\ risk_limits_' = limits
    /\ last' = Call("set_risk_limits", limits, TRUE)
    /\ UNCHANGED <<active_orders_, positions_, balances_, daily_pnl_, total_pnl_,
                   callbacks_, event_queue_, running_, fills>>

\* TradingCore::set_callbacks
set_callbacks(callbacks) ==
    /\ callbacks_' = callbacks
    /\ last' = Call("set_callbacks", callbacks, TRUE)
    /\ UNCHANGED <<active_orders_, positions_, balances_, daily_pnl_, total_pnl_,
                   risk_limits_, event_queue_, running_, fills>>

(***************************************************************************)
(* Clock (clock.cpp)                                                       *)
(*                                                                         *)
(* Times are readings of the high_resolution_clock, counted in ticks.      *)
(* events_ is a std::vector with no mutex: timer_loop walks it on the      *)
(* timer thread, one event per step, while schedule_once and               *)
(* schedule_recurring push_back on the thread of their caller.             *)
(***************************************************************************)
\* Clock::now
Clock_now(c) == IF c.mode_ = "REALTIME" THEN wall ELSE c.current_time_

\* Clock::start, the members of the Clock afterwards
Clock_after_start(c) == [c EXCEPT !.running_ = TRUE]

\* Clock::start, timer_thread_ afterwards: a thread is created on a stopped
\* REALTIME clock only
timer_after_start(c, t) ==
    IF ~c.running_ /\ c.mode_ = "REALTIME"
    THEN [NoTimer EXCEPT !.alive = TRUE]
    ELSE t

\* timer_thread_.join() returns once the thread stands at the test of its
\* while loop
timer_joinable_now(t) == t.pc # "iterate"

\* Clock::stop, the members of the Clock afterwards
Clock_after_stop(c) == [c EXCEPT !.running_ = FALSE]

\* Clock::stop, timer_thread_ afterwards: joined when the clock was running
timer_after_stop(c, t) == IF c.running_ THEN NoTimer ELSE t

\* Clock::start called on the Clock itself
Clock_start ==
    /\ clock_' = Clock_after_start(clock_)
    /\ timer' = timer_after_start(clock_, timer)
    /\ UNCHANGED <<wall, scheduled, delivered, observed_now>>

\* Clock::stop called on the Clock itself
Clock_stop ==
    /\ timer_joinable_now(timer)
    /\ clock_' = Clock_after_stop(clock_)
    /\ timer' = timer_after_stop(clock_, timer)
    /\ UNCHANGED <<wall, scheduled, delivered, observed_now>>

\* events_.push_back(std::move(event))
push_back(event) ==
    IF timer.alive /\ timer.pc = "iterate"
    THEN \E outcome \in {"appended", "lost", "crashed"} :
             /\ clock_' = [clock_ EXCEPT
                               !.events_ = IF outcome = "lost" THEN @
                                           ELSE Append(@, event)]
             /\ timer' = IF outcome = "crashed"
                         THEN [NoTimer EXCEPT !.pc = "crashed"]
                         ELSE timer
    ELSE /\ clock_' = [clock_ EXCEPT !.events_ = Append(@, event)]
         /\ timer' = timer

\* struct ScheduledEvent; id names the callback
ScheduledEvent(id, scheduled_time, recurring, interval) ==
    [id |-> id, scheduled_time |-> scheduled_time, recurring |-> recurring,
     interval |-> interval]

\* The record kept of a schedule_once / schedule_recurring call
Registration(recurring, period) ==
    [id |-> Len(scheduled) + 1, recurring |-> recurring, period |-> period,
     registered_at |-> Clock_now(clock_), running |-> clock_.running_]

\* Clock::schedule_once
schedule_once(delay) ==
    /\ Len(scheduled) < MaxScheduled
    /\ Clock_now(clock_) + delay <= MaxTime
    /\ scheduled' = Append(scheduled, Registration(FALSE, delay))
    /\ push_back(ScheduledEvent(Len(scheduled) + 1,
                                Clock_now(clock_) + delay, FALSE, 0))
    /\ UNCHANGED <<wall, delivered, observed_now>>

\* Clock::schedule_recurring
schedule_recurring(interval) ==
    /\ Len(scheduled) < MaxScheduled
    /\ Clock_now(clock_) + interval <= MaxTime
    /\ scheduled' = Append(scheduled, Registration(TRUE, interval))
    /\ push_back(ScheduledEvent(Len(scheduled) + 1,
                                Clock_now(clock_) + interval, TRUE, interval))
    /\ UNCHANGED <<wall, delivered, observed_now>>

\* timer_loop, top of the while loop with running_ set: read the
\* high_resolution_clock and take events_.begin().  A pass over an empty
\* vector goes straight to sleep.
timer_loop_begin ==
    /\ timer.alive
    /\ timer.pc = "sleep"
    /\ clock_.running_
    /\ clock_.events_ # << >>
    /\ timer' = [timer EXCEPT !.pc = "iterate", !.current_time = wall, !.it = 1]
    /\ UNCHANGED <<clock_, wall, scheduled, delivered, observed_now>>

\* timer_loop, one turn of the inner while loop: at end() sleep; a due event
\* has its callback invoked (what it throws is dropped) and is rescheduled
\* at current_time + interval or erased from events_; an event not yet due
\* is stepped over.
timer_loop_visit ==
    /\ timer.alive
    /\ timer.pc = "iterate"
    /\ IF timer.it > Len(clock_.events_)
       THEN /\ timer' = [NoTimer EXCEPT !.alive = TRUE]
            /\ UNCHANGED <<clock_, delivered>>
       ELSE LET event == clock_.events_[timer.it]
            IN  IF timer.current_time >= event.scheduled_time
                THEN /\ delivered' = Append(delivered,
                                            [id |-> event.id,
                                             at |-> timer.current_time])
                     /\ IF event.recurring
                        THEN /\ clock_' =
                                    [clock_ EXCEPT
                                         !.events_[timer.it].scheduled_time =
                                             timer.current_time + event.interval]
                             /\ timer' = [timer EXCEPT !.it = @ + 1]
                        ELSE /\ clock_' =
                                    [clock_ EXCEPT
                                         !.events_ =
                                             [i \in 1 .. Len(@) - 1 |->
                                                  IF i < timer.it THEN @[i]
                                                  ELSE @[i + 1]]]
                             /\ timer' = timer
                ELSE /\ timer' = [timer EXCEPT !.it = @ + 1]
                     /\ UNCHANGED <<clock_, delivered>>
    /\ UNCHANGED <<wall, scheduled, observed_now>>

\* Clock::set_time
set_time(time) ==
    /\ clock_' = IF clock_.mode_ # "BACKTEST" /\ clock_.mode_ # "SIMULATION"
                 THEN clock_
                 ELSE [clock_ EXCEPT !.current_time_ = time]
    /\ UNCHANGED <<timer, wall, scheduled, delivered, observed_now>>

\* Clock::advance_time
advance_time(duration) ==
    /\ clock_.current_time_ + duration \in 0 .. MaxTime
    /\ clock_' = IF clock_.mode_ # "BACKTEST" /\ clock_.mode_ # "SIMULATION"
                 THEN clock_
                 ELSE [clock_ EXCEPT !.current_time_ = @ + duration]
    /\ UNCHANGED <<timer, wall, scheduled, delivered, observed_now>>

\* A caller reads now()
now ==
    /\ observed_now' = Clock_now(clock_)
    /\ UNCHANGED <<clock_, timer, wall, scheduled, delivered>>

(***************************************************************************)
(* Event dispatch                                                          *)
(***************************************************************************)
\* A start() that creates its thread whether or not the core is running.
start_respawning ==
    /\ running_' = TRUE
    /\ last' = Call("start", "", ~running_)
    /\ clock_' = Clock_after_start(clock_)
    /\ timer' = timer_after_start(clock_, timer)
    /\ event_processor_' = IF event_processor_ = 0 THEN 1 ELSE 2
    /\ UNCHANGED <<active_orders_, positions_, balances_, daily_pnl_, total_pnl_,
                   risk_limits_, callbacks_, event_queue_, fills>>

\* TradingCore::start: returns at once when already running; otherwise sets
\* running_, starts the clock and creates the thread of process_events
start ==
    /\ running_' = TRUE
    /\ last' = Call("start", "", ~running_)
    /\ IF running_
       THEN UNCHANGED <<clock_, timer, event_processor_>>
       ELSE /\ clock_' = Clock_after_start(clock_)
            /\ timer' = timer_after_start(clock_, timer)
            /\ event_processor_' = event_processor_ + 1
    /\ UNCHANGED <<active_orders_, positions_, balances_, daily_pnl_, total_pnl_,
                   risk_limits_, callbacks_, event_queue_, fills>>

\* TradingCore::stop: returns at once when already stopped; otherwise clears
\* running_, stops the clock and joins the thread of process_events, which
\* leaves its loop at the next test of running_
stop ==
    /\ timer_joinable_now(timer)
    /\ running_' = FALSE
    /\ last' = Call("stop", "", running_)
    /\ IF running_
       THEN /\ clock_' = Clock_after_stop(clock_)
            /\ timer' = timer_after_stop(clock_, timer)
            /\ event_processor_' = event_processor_ - 1
       ELSE UNCHANGED <<clock_, timer, event_processor_>>
    /\ UNCHANGED <<active_orders_, positions_, balances_, daily_pnl_, total_pnl_,
                   risk_limits_, callbacks_, event_queue_, fills>>

\* An event thread that takes the newest invocation first.
process_events_newest_first ==
    /\ running_
    /\ event_queue_ # << >>
    /\ event_queue_' = SubSeq(event_queue_, 1, Len(event_queue_) - 1)
    /\ last' = Call("process_events", event_queue_[Len(event_queue_)],
                    callbacks_[event_queue_[Len(event_queue_)].kind])
    /\ UNCHANGED <<active_orders_, positions_, balances_, daily_pnl_, total_pnl_,
                   risk_limits_, callbacks_, running_, fills>>

\* One iteration of TradingCore::process_events that finds the queue
\* non-empty: pop the front and run it.  The lambda calls the callback that
\* is installed now; an empty std::function throws and the throw is dropped.
\* last.ret tells whether the user callback ran.
process_events ==
    /\ running_
    /\ event_queue_ # << >>
    /\ event_queue_' = Tail(event_queue_)
    /\ last' = Call("process_events", Head(event_queue_),
                    callbacks_[Head(event_queue_).kind])
    /\ UNCHANGED <<active_orders_, positions_, balances_, daily_pnl_, total_pnl_,
                   risk_limits_, callbacks_, running_, fills>>

(***************************************************************************)
(* Fill accounting                                                         *)
(***************************************************************************)
\* TradingCore::update_position, the position after the trade
position_after(position, trade) ==
    IF trade.side = "BUY"
    THEN LET total_cost ==
                 Decimal_add(Decimal_mul(position.quantity, position.average_price),
                             Decimal_mul(trade.quantity, trade.price))
             quantity == Decimal_add(position.quantity, trade.quantity)
         IN  [position EXCEPT
                !.quantity = quantity,
                !.average_price =
                    IF ~Decimal_is_zero(quantity)
                    THEN Decimal_div(total_cost, quantity)
                    ELSE position.average_price]
    ELSE LET realized ==
                 Decimal_mul(trade.quantity,
                             Decimal_sub(trade.price, position.average_price))
         IN  [position EXCEPT
                !.realized_pnl = Decimal_add(position.realized_pnl, realized),
                !.quantity = Decimal_sub(position.quantity, trade.quantity)]

\* TradingCore::update_position, the P&L realized by the trade (SELL only)
realized_by(position, trade) ==
    IF trade.side = "BUY"
    THEN 0
    ELSE Decimal_mul(trade.quantity,
                     Decimal_sub(trade.price, position.average_price))

\* positions_[trade.symbol]: the stored position, default-constructed if absent
position_of(symbol) ==
    IF symbol \in DOMAIN positions_ THEN positions_[symbol] ELSE [quantity |-> 0, average_price |-> 0, unrealized_pnl |-> 0, realized_pnl |-> 0]

\* TradingCore::update_position
update_position(trade) ==
    /\ fills < MaxFills
    /\ QueueHasRoom
    /\ fills' = fills + 1
    /\ positions_' =
           MapPut(positions_, trade.symbol,
                  position_after(position_of(trade.symbol), trade))
    /\ total_pnl_' =
           Decimal_add(total_pnl_, realized_by(position_of(trade.symbol), trade))
    /\ daily_pnl_' =
           Decimal_add(daily_pnl_, realized_by(position_of(trade.symbol), trade))
    /\ event_queue_' =
           Enqueue(event_queue_, KeyEvent("on_position_update", trade.symbol))
    /\ last' = Call("update_position", trade, TRUE)
    /\ UNCHANGED <<active_orders_, balances_, risk_limits_, callbacks_, running_>>

\* TradingCore::update_balance
update_balance(currency, delta) ==
    /\ fills < MaxFills
    /\ QueueHasRoom
    /\ fills' = fills + 1
    /\ LET balance ==
               IF currency \in DOMAIN balances_ THEN balances_[currency]
               ELSE [total |-> 0, available |-> 0]
       IN  balances_' =
               MapPut(balances_, currency,
                      [total |-> Decimal_add(balance.total, delta),
                       available |-> Decimal_add(balance.available, delta)])
    /\ event_queue_' =
           Enqueue(event_queue_, KeyEvent("on_balance_update", currency))
    /\ last' = Call("update_balance", <<currency, delta>>, TRUE)
    /\ UNCHANGED <<active_orders_, positions_, daily_pnl_, total_pnl_,
                   risk_limits_, callbacks_, running_>>

(***************************************************************************)
(* Persistence                                                             *)
(***************************************************************************)
\* The JSON text export_state() writes for the current state: per position
\* symbol, quantity, average_price and realized_pnl, per balance currency,
\* total and available, then total_pnl and daily_pnl, each Decimal through
\* to_string. Orders and order books are not written.
exported_state ==
    [positions |->
         [symbol \in DOMAIN positions_ |->
              [quantity |-> Decimal_to_string(positions_[symbol].quantity),
               average_price |-> Decimal_to_string(positions_[symbol].average_price),
               realized_pnl |-> Decimal_to_string(positions_[symbol].realized_pnl)]],
     balances |->
         [currency \in DOMAIN balances_ |->
              [total |-> Decimal_to_string(balances_[currency].total),
               available |-> Decimal_to_string(balances_[currency].available)]],
     total_pnl |-> Decimal_to_string(total_pnl_),
     daily_pnl |-> Decimal_to_string(daily_pnl_)]

\* TradingCore::export_state; the caller keeps the returned text
export_state ==
    /\ snapshot' = <<exported_state>>
    /\ last' = Call("export_state", "", exported_state)
    /\ UNCHANGED <<active_orders_, positions_, balances_, daily_pnl_, total_pnl_,
                   risk_limits_, callbacks_, event_queue_, running_, fills>>

\* TradingCore::reset, with the OrderBookManager::clear_all it ends with;
\* the record of the call keeps what the state it cleared would have
\* exported
reset ==
    /\ active_orders_' = EmptyMap
    /\ positions_' = EmptyMap
    /\ balances_' = EmptyMap
    /\ daily_pnl_' = 0
    /\ total_pnl_' = 0
    /\ order_books_' = {}
    /\ tick' = after_destroy(order_books_)
    /\ last' = Call("reset", exported_state, TRUE)
    /\ UNCHANGED <<risk_limits_, callbacks_, event_queue_, running_, fills,
                   snapshot>>

\* TradingCore::import_state: the text is not read, false is returned
import_state(json) ==
    /\ last' = Call("import_state", json, FALSE)
    /\ UNCHANGED <<active_orders_, positions_, balances_, daily_pnl_, total_pnl_,
                   risk_limits_, callbacks_, event_queue_, running_, fills,
                   snapshot>>

(***************************************************************************)
(* LimitOrder (src/core/limit_order.cpp)                                   *)
(***************************************************************************)
\* The status the fill level gives in set_filled_quantity and add_execution:
\* FILLED at or above quantity, PARTIAL above zero, else left alone.
status_for_fill_level(order) ==
    IF order.filled_quantity >= order.quantity THEN "FILLED"
    ELSE IF order.filled_quantity > 0 THEN "PARTIAL"
    ELSE order.status

\* LimitOrder::set_filled_quantity
LimitOrder_set_filled_quantity(order, filled) ==
    LET stored == [order EXCEPT !.filled_quantity = filled]
    IN  [stored EXCEPT !.status = status_for_fill_level(stored)]

\* LimitOrder::apply_fill; fill_price is not read and no execution is recorded
LimitOrder_apply_fill(order, fill_quantity, fill_price) ==
    LET filled == Decimal_add(order.filled_quantity, fill_quantity)
    IN  [order EXCEPT !.filled_quantity = filled,
                      !.status = IF filled >= order.quantity THEN "FILLED"
                                 ELSE "PARTIAL"]

\* LimitOrder::add_execution; the ledger keeps the quantity of each execution
LimitOrder_add_execution(order, quantity, price) ==
    LET stored == [order EXCEPT
                       !.executions = Append(@, quantity),
                       !.filled_quantity = Decimal_add(@, quantity)]
    IN  [stored EXCEPT !.status = status_for_fill_level(stored)]

RECURSIVE total_executed_from(_, _)
\* LimitOrder::is_valid, the loop "total_executed += exec.quantity"
total_executed_from(executions, total) ==
    IF executions = << >> THEN total
    ELSE total_executed_from(Tail(executions),
                             Decimal_add(total, Head(executions)))

\* Decimal("0.00000001"), below the resolution of the scaled Decimal
EXECUTION_TOLERANCE == 0

\* LimitOrder::is_valid, the execution-consistency check
executions_consistent(order) ==
    ~(Decimal_abs(Decimal_sub(total_executed_from(order.executions, 0),
                              order.filled_quantity)) > EXECUTION_TOLERANCE)

\* One call on the LimitOrder, leaving it as result.
LimitOrder_call(op, arg, result) ==
    /\ limit_order' = result
    /\ last' = Call(op, arg, TRUE)
    /\ UNCHANGED <<active_orders_, positions_, balances_, daily_pnl_, total_pnl_,
                   risk_limits_, callbacks_, event_queue_, running_, snapshot>>
    /\ UNCHANGED <<book_vars, dispatch_vars, time_vars, lock_vars, market_vars>>

\* A call that adds to the filled quantity; at most MaxFills of them.
LimitOrder_fill_call(op, arg, result) ==
    /\ fills < MaxFills
    /\ fills' = fills + 1
    /\ LimitOrder_call(op, arg, result)

(***************************************************************************)
(* LimitOrder as JSON (limit_order.cpp, decimal.cpp, clock.cpp)            *)
(*                                                                         *)
(* A Timestamp counts nanoseconds.  A JSON object is the record of its     *)
(* keys; an optional that is not set has no key and is << >> here, one     *)
(* that is set is <<value>>.  The computed keys to_json adds                *)
(* (remaining_quantity, fill_percentage, age_ms, ...) are read by nothing  *)
(* and left out.                                                           *)
(***************************************************************************)
\* std::chrono::nanoseconds in one std::chrono::milliseconds
NANOS_PER_MILLI == 1000000

\* Clock::to_milliseconds: duration_cast, which truncates toward zero
to_milliseconds(ts) == TruncDiv(ts, NANOS_PER_MILLI)

\* Clock::from_milliseconds
from_milliseconds(ms) == ms * NANOS_PER_MILLI

\* std::stoll of the fractional digits padded with zeros to FRAC_DIGITS
RECURSIVE frac_value(_, _)
frac_value(digits, width) ==
    IF width = 0 THEN 0
    ELSE (IF digits = << >> THEN 0 ELSE Head(digits) * 10 ^ (width - 1))
             + frac_value(IF digits = << >> THEN << >> ELSE Tail(digits),
                          width - 1)

\* Decimal::Decimal(const std::string&) on a text to_string has written
Decimal_from_string(str) ==
    LET value == Wrap(Wrap(str[2] * SCALE_FACTOR) + frac_value(str[3], FRAC_DIGITS))
    IN  IF str[1] THEN Wrap(-value) ELSE value

\* ExecutionDetail::to_json
ExecutionDetail_to_json(exec) ==
    [execution_id |-> exec.execution_id,
     quantity |-> Decimal_to_string(exec.quantity),
     price |-> Decimal_to_string(exec.price),
     fee_amount |-> Decimal_to_string(exec.fee_amount),
     fee_currency |-> exec.fee_currency,
     timestamp |-> to_milliseconds(exec.timestamp)]

\* ExecutionDetail::from_json
ExecutionDetail_from_json(j) ==
    [execution_id |-> j.execution_id,
     quantity |-> Decimal_from_string(j.quantity),
     price |-> Decimal_from_string(j.price),
     fee_amount |-> Decimal_from_string(j.fee_amount),
     fee_currency |-> j.fee_currency,
     timestamp |-> from_milliseconds(j.timestamp)]

\* LimitOrder::to_json
to_json(order) ==
    [client_order_id |-> order.client_order_id,
     trading_pair |-> order.trading_pair,
     side |-> order.side,
     type |-> order.type,
     base_currency |-> order.base_currency,
     quote_currency |-> order.quote_currency,
     price |-> Decimal_to_string(order.price),
     quantity |-> Decimal_to_string(order.quantity),
     filled_quantity |-> Decimal_to_string(order.filled_quantity),
     creation_time |-> to_milliseconds(order.creation_time),
     last_update_time |-> to_milliseconds(order.last_update_time),
     status |-> order.status,
     position |-> order.position,
     exchange_order_id |-> order.exchange_order_id,
     executions |-> [i \in 1 .. Len(order.executions) |->
                         ExecutionDetail_to_json(order.executions[i])],
     rejection_reason |-> order.rejection_reason,
     expiry_time |-> IF order.expiry_time = << >> THEN << >>
                     ELSE <<to_milliseconds(order.expiry_time[1])>>]

\* LimitOrder::from_json
from_json(json_obj) ==
    [client_order_id |-> json_obj.client_order_id,
     trading_pair |-> json_obj.trading_pair,
     side |-> json_obj.side,
     type |-> json_obj.type,
     base_currency |-> json_obj.base_currency,
     quote_currency |-> json_obj.quote_currency,
     price |-> Decimal_from_string(json_obj.price),
     quantity |-> Decimal_from_string(json_obj.quantity),
     filled_quantity |-> Decimal_from_string(json_obj.filled_quantity),
     status |-> json_obj.status,
     creation_time |-> from_milliseconds(json_obj.creation_time),
     last_update_time |-> from_milliseconds(json_obj.last_update_time),
     position |-> json_obj.position,
     exchange_order_id |-> json_obj.exchange_order_id,
     rejection_reason |-> json_obj.rejection_reason,
     expiry_time |-> IF json_obj.expiry_time = << >> THEN << >>
                     ELSE <<from_milliseconds(json_obj.expiry_time[1])>>,
     executions |-> [i \in 1 .. Len(json_obj.executions) |->
                         ExecutionDetail_from_json(json_obj.executions[i])]]

\* The orders serialised: the stored members of a LimitOrder, stamped 2 ms
\* and 2.5 ms after the epoch, without and with an execution
StoredOrders ==
    [client_order_id : {"a"}, trading_pair : {"BTC-USDT"}, side : {"BUY"},
     type : {"LIMIT"}, base_currency : {"BTC"}, quote_currency : {"USDT"},
     price : {100, 5, -150}, quantity : {100}, filled_quantity : {0, 50},
     creation_time : {2000000, 2500000},
     last_update_time : {2000000, 2500000},
     status : {"OPEN", "PARTIAL"}, position : {"NIL"},
     exchange_order_id : {"", "x1"},
     executions :
         { << >>,
           <<[execution_id |-> "e1", quantity |-> 50, price |-> 105,
              fee_amount |-> 1, fee_currency |-> "USDT",
              timestamp |-> 3000000]>> },
     rejection_reason : {<< >>, <<"size">>},
     expiry_time : {<< >>, <<4000000>>}]

\* An order comes to hold these members (constructor, setters, fills)
LimitOrder_stored(order) ==
    /\ LimitOrder_call("LimitOrder", order, order)
    /\ UNCHANGED fills

\* from_json(o.to_json()) on the order
json_round_trip ==
    /\ limit_order \in StoredOrders
    /\ last' = Call("from_json", to_json(limit_order),
                    from_json(to_json(limit_order)))
    /\ UNCHANGED <<store_vars, book_vars, dispatch_vars, time_vars, lock_vars, market_vars>>

(***************************************************************************)
(* OrderBook and OrderBookSide (order_book.hpp, order_book.cpp)            *)
(*                                                                         *)
(* Each OrderBookSide method runs under the mutex of its side and is one   *)
(* step.  OrderBook has no lock of its own around a mutator: the call on   *)
(* the side, the write of last_update_id_ and notify_update (under         *)
(* callback_mutex_) are separate steps of the calling thread.              *)
(***************************************************************************)
OrderBookEntry(price, amount, update_id) ==
    [price |-> price, amount |-> amount, update_id |-> update_id]

\* std::find_if over entries_ for the price: the entries it can stop at
entries_at(entries, price) == {e \in entries : e.price = price}

\* An update that emplaces without erasing the entry found at the price.
OrderBookSide_update_no_erase(entries, price, amount, update_id) ==
    IF Decimal_is_zero(amount)
    THEN entries \ entries_at(entries, price)
    ELSE entries \cup {OrderBookEntry(price, amount, update_id)}

\* OrderBookSide::update
OrderBookSide_update(entries, price, amount, update_id) ==
    LET found == entries_at(entries, price)
        erased == IF found = {} THEN entries
                  ELSE entries \ {CHOOSE e \in found : TRUE}
    IN  IF Decimal_is_zero(amount)
        THEN erased
        ELSE erased \cup {OrderBookEntry(price, amount, update_id)}

\* OrderBookSide::best: begin() of the set, the highest bid or the lowest
\* ask; end() when the side is empty
OrderBookSide_best(entries, side) ==
    IF entries = {} THEN End
    ELSE IF side = "bids"
         THEN CHOOSE e \in entries : \A o \in entries : o.price <= e.price
         ELSE CHOOSE e \in entries : \A o \in entries : o.price >= e.price

\* One call on a side: update(price, amount, update_id) or clear()
SideOp(side, op, entry) == [side |-> side, op |-> op, entry |-> entry]

UpdateOps(side, batch) ==
    [i \in 1 .. Len(batch) |-> SideOp(side, "update", batch[i])]

\* What a side holds after the call
side_after(entries, op) ==
    IF op.op = "clear" THEN {}
    ELSE OrderBookSide_update(entries, op.entry.price, op.entry.amount,
                              op.entry.update_id)

\* The calls on the sides a mutator of OrderBook makes, in its order:
\* the bid entries, then the ask entries; clear() clears bids, then asks.
side_ops(call) ==
    IF call.kind = "clear"
    THEN <<SideOp("bids", "clear", End), SideOp("asks", "clear", End)>>
    ELSE UpdateOps("bids", call.bids) \o UpdateOps("asks", call.asks)

\* Mutators of OrderBook with their arguments
update_bid(price, amount, update_id) ==
    [kind |-> "update_bid", bids |-> <<OrderBookEntry(price, amount, update_id)>>,
     asks |-> << >>, final_update_id |-> update_id]

update_ask(price, amount, update_id) ==
    [kind |-> "update_ask", bids |-> << >>,
     asks |-> <<OrderBookEntry(price, amount, update_id)>>,
     final_update_id |-> update_id]

apply_updates(bids, asks, final_update_id) ==
    [kind |-> "apply_updates", bids |-> bids, asks |-> asks,
     final_update_id |-> final_update_id]

clear == [kind |-> "clear", bids |-> << >>, asks |-> << >>, final_update_id |-> 0]

\* The calls the writing threads make.
BookCalls ==
    { update_bid(100, 5, 2),
      update_bid(100, 0, 1),
      update_ask(102, 5, 3),
      apply_updates(<<OrderBookEntry(101, 7, 1), OrderBookEntry(100, 6, 2)>>,
                    <<OrderBookEntry(102, 4, 3)>>, 4),
      clear }

RECURSIVE notify_update_uncaught(_)
\* A notify_update that lets the exception of a callback end the loop.
notify_update_uncaught(callbacks) ==
    IF callbacks = << >> THEN << >>
    ELSE IF Head(callbacks).throws THEN <<Head(callbacks).name>>
    ELSE <<Head(callbacks).name>> \o notify_update_uncaught(Tail(callbacks))

RECURSIVE notify_update(_)
\* OrderBook::notify_update: the callbacks invoked, in order; an exception
\* is caught and the loop goes on
notify_update(callbacks) ==
    IF callbacks = << >> THEN << >>
    ELSE <<Head(callbacks).name>> \o notify_update(Tail(callbacks))

AllIdle == \A t \in Writers : writers[t].pc = "idle"

RECURSIVE book_after_ops(_, _)
\* The sides after the calls on them, made one after the other
book_after_ops(b, ops) ==
    IF ops = << >> THEN b
    ELSE book_after_ops(
             IF Head(ops).side = "bids"
             THEN [b EXCEPT !.bids = side_after(@, Head(ops))]
             ELSE [b EXCEPT !.asks = side_after(@, Head(ops))],
             Tail(ops))

\* The book after one mutator has run alone from b
book_after_call(b, call) ==
    [book_after_ops(b, side_ops(call)) EXCEPT
         !.last_update_id = call.final_update_id]

book == [bids |-> bids_, asks |-> asks_, last_update_id |-> last_update_id_]

\* A thread enters update_bid, update_ask, apply_updates or clear.
begin_call(t, call) ==
    /\ writers[t].pc = "idle"
    /\ calls_begun < MaxCalls
    /\ calls_begun' = calls_begun + 1
    /\ writers' = [writers EXCEPT ![t] =
                       [pc |-> IF side_ops(call) = << >> THEN "set_id" ELSE "side",
                        call |-> call, todo |-> side_ops(call),
                        applied |-> << >>, invoked |-> << >>]]
    /\ epoch' = IF AllIdle THEN [base |-> book, calls |-> <<call>>]
                ELSE [epoch EXCEPT !.calls = Append(@, call)]
    /\ UNCHANGED <<bids_, asks_, last_update_id_, update_callbacks_, reader>>

\* The reader's view of a step on the side it holds an iterator into: the
\* best price it may now report, and whether its entry was erased.
reader_after(op, entries) ==
    IF reader.pc = "has_iterator" /\ reader.side = op.side
    THEN [reader EXCEPT
              !.valid = @ \cup {OrderBookSide_best(side_after(entries, op), op.side).price},
              !.dangling = @ \/ (/\ reader.iterator # End
                                 /\ \/ op.op = "clear"
                                    \/ op.entry.price = reader.iterator.price)]
    ELSE reader

\* bids_.update / asks_.update / clear of a side, under the mutex of the side
side_step(t) ==
    /\ writers[t].pc = "side"
    /\ LET op == Head(writers[t].todo)
       IN  /\ IF op.side = "bids"
              THEN /\ bids_' = side_after(bids_, op)
                   /\ reader' = reader_after(op, bids_)
                   /\ UNCHANGED asks_
              ELSE /\ asks_' = side_after(asks_, op)
                   /\ reader' = reader_after(op, asks_)
                   /\ UNCHANGED bids_
           /\ writers' = [writers EXCEPT
                              ![t].todo = Tail(@),
                              ![t].applied = Append(@, op),
                              ![t].pc = IF Tail(writers[t].todo) = << >>
                                        THEN "set_id" ELSE "side"]
    /\ UNCHANGED <<last_update_id_, update_callbacks_, calls_begun, epoch>>

\* last_update_id_ = update_id (final_update_id, or 0 in clear), outside any
\* lock; clear() returns after it, the updates go on to notify_update
set_id_step(t) ==
    /\ writers[t].pc = "set_id"
    /\ last_update_id_' = writers[t].call.final_update_id
    /\ writers' = [writers EXCEPT
                       ![t].pc = IF writers[t].call.kind = "clear"
                                 THEN "idle" ELSE "notify"]
    /\ UNCHANGED <<bids_, asks_, update_callbacks_, reader, calls_begun, epoch>>

\* notify_update(), under callback_mutex_; each callback invoked can read
\* last_update_id() of the book
notify_step(t) ==
    /\ writers[t].pc = "notify"
    /\ writers' = [writers EXCEPT
                       ![t].pc = "idle",
                       ![t].invoked =
                           [i \in 1 .. Len(notify_update(update_callbacks_)) |->
                                [name |-> notify_update(update_callbacks_)[i],
                                 last_update_id |-> last_update_id_]]]
    /\ UNCHANGED <<bids_, asks_, last_update_id_, update_callbacks_, reader,
                   calls_begun, epoch>>

\* OrderBook::register_update_callback
register_update_callback(callback) ==
    /\ Len(update_callbacks_) < MaxListeners
    /\ update_callbacks_' = Append(update_callbacks_, callback)
    /\ UNCHANGED <<bids_, asks_, last_update_id_, writers, reader, calls_begun,
                   epoch>>

\* OrderBook::best_bid / best_ask, first half: best() under the mutex of the
\* side hands out an iterator and releases the mutex
best_begin(side) ==
    /\ reader.pc = "idle"
    /\ LET entries == IF side = "bids" THEN bids_ ELSE asks_
           best == OrderBookSide_best(entries, side)
       IN  reader' = [pc |-> "has_iterator", side |-> side, iterator |-> best,
                      dangling |-> FALSE, valid |-> {best.price}, ret |-> 0,
                      read_freed |-> FALSE, returned |-> FALSE]
    /\ UNCHANGED <<bids_, asks_, last_update_id_, update_callbacks_, writers,
                   calls_begun, epoch>>

\* OrderBook::best_bid / best_ask, second half: compare with end() and read
\* best->price through the iterator, without the mutex.  Reading through an
\* iterator whose entry was erased is a read of freed memory.
best_return ==
    /\ reader.pc = "has_iterator"
    /\ \E word \in {0, 100, 101, 102, -1} :
           reader' = [reader EXCEPT
                          !.pc = "idle",
                          !.returned = TRUE,
                          !.read_freed = reader.dangling,
                          !.ret = IF reader.iterator = End THEN 0
                                  ELSE IF reader.dangling THEN word
                                  ELSE reader.iterator.price]
    /\ UNCHANGED <<bids_, asks_, last_update_id_, update_callbacks_, writers,
                   calls_begun, epoch>>

(***************************************************************************)
(* OrderBook queries (order_book.cpp)                                      *)
(***************************************************************************)
\* OrderBookSide::get_levels(0): every entry of the side in the order of its
\* comparator, the best price first
RECURSIVE get_levels(_, _)
get_levels(entries, side) ==
    IF entries = {} THEN << >>
    ELSE LET first == OrderBookSide_best(entries, side)
         IN  <<first>> \o get_levels(entries \ {first}, side)

\* OrderBook::best_bid: zero when the side is empty
best_bid(b) ==
    IF OrderBookSide_best(b.bids, "bids") = End THEN 0
    ELSE OrderBookSide_best(b.bids, "bids").price

\* OrderBook::best_ask: zero when the side is empty
best_ask(b) ==
    IF OrderBookSide_best(b.asks, "asks") = End THEN 0
    ELSE OrderBookSide_best(b.asks, "asks").price

\* OrderBook::is_valid: the two best prices are compared when neither of them
\* is zero
is_valid(b) ==
    IF ~Decimal_is_zero(best_bid(b)) /\ ~Decimal_is_zero(best_ask(b))
    THEN best_bid(b) < best_ask(b)
    ELSE TRUE

\* The loop of get_impact_price over the levels of one side: what is left of
\* the quantity and the cost accumulated when it ends
RECURSIVE consume_levels(_, _, _)
consume_levels(levels, remaining_quantity, total_cost) ==
    IF levels = << >> \/ Decimal_is_zero(remaining_quantity)
    THEN [remaining_quantity |-> remaining_quantity, total_cost |-> total_cost]
    ELSE LET consume_quantity == IF remaining_quantity < Head(levels).amount
                                 THEN remaining_quantity
                                 ELSE Head(levels).amount
         IN  consume_levels(Tail(levels),
                            Decimal_sub(remaining_quantity, consume_quantity),
                            Decimal_add(total_cost,
                                        Decimal_mul(consume_quantity,
                                                    Head(levels).price)))

\* OrderBook::get_impact_price
get_impact_price(b, is_buy, quantity) ==
    IF Decimal_is_zero(quantity) THEN 0
    ELSE LET levels == IF is_buy THEN get_levels(b.asks, "asks")
                       ELSE get_levels(b.bids, "bids")
             walked == consume_levels(levels, quantity, 0)
         IN  IF walked.remaining_quantity > 0 THEN 0
             ELSE Decimal_div(walked.total_cost, quantity)

\* A mutator of the book run from entry to return by the only thread that
\* uses the book; no listener is registered.
OrderBook_mutate(call) ==
    /\ AllIdle
    /\ bids_' = book_after_call(book, call).bids
    /\ asks_' = book_after_call(book, call).asks
    /\ last_update_id_' = book_after_call(book, call).last_update_id
    /\ last' = Call(call.kind, call, TRUE)
    /\ UNCHANGED <<update_callbacks_, writers, reader, calls_begun, epoch>>

\* A call of get_impact_price by that thread
get_impact_price_call(is_buy, quantity) ==
    /\ AllIdle
    /\ last' = Call("get_impact_price",
                    [is_buy |-> is_buy, quantity |-> quantity],
                    get_impact_price(book, is_buy, quantity))
    /\ UNCHANGED book_vars

\* A call of is_valid by that thread
is_valid_call ==
    /\ AllIdle
    /\ last' = Call("is_valid", "", is_valid(book))
    /\ UNCHANGED book_vars

(***************************************************************************)
(* Decimal arithmetic used on its own                                      *)
(***************************************************************************)
\* A caller evaluates a * b or a / b; the record of the call keeps the
\* operands and the Decimal returned.
Decimal_binary(op, a, b) ==
    /\ last' = Call(op, <<a, b>>,
                    IF op = "operator*" THEN Decimal_mul(a, b)
                    ELSE Decimal_div(a, b))
    /\ UNCHANGED <<store_vars, book_vars, dispatch_vars, time_vars, lock_vars, market_vars>>

(***************************************************************************)
(* TradingCore under its two locks (trading_core.cpp)                      *)
(*                                                                         *)
(* state_mutex_ is a std::shared_mutex and event_mutex_ a std::mutex.  A   *)
(* thread takes one step per lock it acquires and one per stretch of code  *)
(* it runs between two acquisitions; a lock released where a scope ends is *)
(* released in the step that ends there.                                   *)
(***************************************************************************)
\* A lock() that takes the mutex whoever holds it.
lock_without_waiting(t) ==
    state_mutex_' = [state_mutex_ EXCEPT !.writer = t]

\* std::shared_mutex::lock by thread t: taken when nobody holds the mutex;
\* otherwise t is entered as a waiting writer and blocks
lock(t) ==
    IF /\ state_mutex_.writer = "none"
       /\ \A u \in Callers : state_mutex_.readers[u] = 0
    THEN state_mutex_' =
             [state_mutex_ EXCEPT !.writer = t, !.waiting = @ \ {t}]
    ELSE /\ t \notin state_mutex_.waiting
         /\ state_mutex_' = [state_mutex_ EXCEPT !.waiting = @ \cup {t}]

\* std::shared_mutex::lock_shared by thread t: it blocks while a writer
\* holds the mutex.  While a writer waits, an implementation that prefers
\* readers grants the lock and one that prefers writers makes t wait behind
\* the writer; a thread that already owns the mutex in shared mode may not
\* call lock_shared at all, and what it gets is one of the two.
lock_shared(t) ==
    /\ state_mutex_.writer = "none"
    /\ IF state_mutex_.waiting = {}
       THEN state_mutex_' =
                [state_mutex_ EXCEPT !.readers[t] = @ + 1, !.queued = @ \ {t}]
       ELSE /\ t \notin state_mutex_.queued
            /\ \/ state_mutex_' = [state_mutex_ EXCEPT !.readers[t] = @ + 1]
               \/ state_mutex_' = [state_mutex_ EXCEPT !.queued = @ \cup {t}]

\* Thread t enters a public method; the event queue of the model has room
\* for what the calls under way can push, and MaxFills bounds the fills
enter(t, op, arg) ==
    /\ callers[t].pc = "idle"
    /\ op \in {"submit_order", "cancel_order", "update_position", "update_balance"}
       => Len(event_queue_)
            + Cardinality({u \in Callers :
                  callers[u].op \in {"submit_order", "cancel_order",
                                     "update_position", "update_balance"}
                  /\ callers[u].pc # "idle"}) < MaxQueue
    /\ op \in {"update_position", "update_balance"}
       => fills
            + Cardinality({u \in Callers :
                  callers[u].op \in {"update_position", "update_balance"}
                  /\ callers[u].pc # "idle"}) < MaxFills
    /\ callers' =
           [callers EXCEPT
                ![t] = [IdleCaller EXCEPT
                            !.op = op, !.arg = <<arg>>,
                            !.pc = IF op = "submit_order" THEN "validate"
                                   ELSE IF op \in {"get_active_orders",
                                                   "get_statistics"}
                                   THEN "lock_shared"
                                   ELSE "lock"]]
    /\ UNCHANGED <<state_mutex_, event_mutex_, core_vars>>

\* Thread t acquires the lock it stands in front of: std::unique_lock or
\* std::shared_lock on state_mutex_, std::lock_guard on event_mutex_
acquire(t) ==
    /\ \/ /\ callers[t].pc = "lock"
          /\ lock(t)
          /\ callers' = [callers EXCEPT
                             ![t].pc = IF state_mutex_'.writer = t
                                       THEN "locked" ELSE @]
          /\ UNCHANGED event_mutex_
       \/ /\ callers[t].pc \in {"lock_shared", "lock_nested"}
          /\ lock_shared(t)
          /\ callers' = [callers EXCEPT
                             ![t].pc = IF state_mutex_'.readers[t]
                                            > state_mutex_.readers[t]
                                       THEN IF @ = "lock_shared"
                                            THEN "locked_shared"
                                            ELSE "locked_nested"
                                       ELSE @]
          /\ UNCHANGED event_mutex_
       \/ /\ callers[t].pc = "lock_event"
          /\ event_mutex_ = "none"
          /\ event_mutex_' = t
          /\ callers' = [callers EXCEPT ![t].pc = "locked_event"]
          /\ UNCHANGED state_mutex_
    /\ UNCHANGED core_vars

\* TradingCore::submit_order: validate_order without a lock;
\* check_risk_limits under its own shared lock; the rejection pushed under
\* event_mutex_ alone; the insertion under the exclusive lock
submit_order_thread(t) ==
    /\ callers[t].op = "submit_order"
    /\ \/ /\ callers[t].pc = "validate"
          /\ callers' =
                 [callers EXCEPT
                      ![t] = IF validate_order(callers[t].arg[1])
                             THEN [@ EXCEPT !.pc = "lock_shared"]
                             ELSE [IdleCaller EXCEPT !.op = callers[t].op,
                                                     !.ret = <<FALSE>>]]
          /\ UNCHANGED <<state_mutex_, event_mutex_, core_vars>>
       \/ /\ callers[t].pc = "locked_shared"
          /\ state_mutex_' = [state_mutex_ EXCEPT !.readers[t] = @ - 1]
          /\ callers' =
                 [callers EXCEPT
                      ![t] = IF check_risk_limits(callers[t].arg[1])
                             THEN [@ EXCEPT !.pc = "lock"]
                             ELSE IF callbacks_.on_order_rejected
                             THEN [@ EXCEPT !.pc = "lock_event"]
                             ELSE [IdleCaller EXCEPT !.op = callers[t].op,
                                                     !.ret = <<FALSE>>]]
          /\ UNCHANGED <<event_mutex_, core_vars>>
       \/ /\ callers[t].pc = "locked_event"
          /\ event_queue_' =
                 Append(event_queue_,
                        OrderEvent("on_order_rejected", callers[t].arg[1]))
          /\ event_mutex_' = "none"
          /\ callers' = [callers EXCEPT
                            ![t] = [IdleCaller EXCEPT !.op = callers[t].op,
                                                      !.ret = <<FALSE>>]]
          /\ UNCHANGED <<state_mutex_, active_orders_, positions_, balances_,
                         daily_pnl_, total_pnl_, risk_limits_, callbacks_,
                         running_, fills, last, snapshot, limit_order>>
       \/ /\ callers[t].pc = "locked"
          /\ active_orders_' =
                 MapPut(active_orders_, callers[t].arg[1].client_order_id,
                        order_copy(callers[t].arg[1]))
          /\ state_mutex_' = [state_mutex_ EXCEPT !.writer = "none"]
          /\ callers' = [callers EXCEPT
                            ![t] = [IdleCaller EXCEPT !.op = callers[t].op,
                                                      !.ret = <<TRUE>>]]
          /\ UNCHANGED <<event_mutex_, positions_, balances_, daily_pnl_,
                         total_pnl_, risk_limits_, callbacks_, event_queue_,
                         running_, fills, last, snapshot, limit_order>>

\* TradingCore::cancel_order: under the exclusive lock find the order and
\* cancel() it, push the copy under event_mutex_ when on_order_cancelled is
\* set, erase the order and return true; return false when it is not found
cancel_order_thread(t) ==
    /\ callers[t].op = "cancel_order"
    /\ \/ /\ callers[t].pc = "locked"
          /\ IF callers[t].arg[1] \in DOMAIN active_orders_
             THEN /\ active_orders_' =
                         [active_orders_ EXCEPT
                              ![callers[t].arg[1]] = LimitOrder_cancel(@)]
                  /\ callers' =
                         [callers EXCEPT
                              ![t].it = <<LimitOrder_cancel(
                                              active_orders_[callers[t].arg[1]])>>,
                              ![t].pc = IF callbacks_.on_order_cancelled
                                        THEN "lock_event" ELSE "erase"]
                  /\ UNCHANGED state_mutex_
             ELSE /\ state_mutex_' = [state_mutex_ EXCEPT !.writer = "none"]
                  /\ callers' = [callers EXCEPT
                                    ![t] = [IdleCaller EXCEPT !.op = callers[t].op,
                                                              !.ret = <<FALSE>>]]
                  /\ UNCHANGED active_orders_
          /\ UNCHANGED <<event_mutex_, event_queue_>>
       \/ /\ callers[t].pc = "locked_event"
          /\ event_queue_' =
                 Append(event_queue_,
                        OrderEvent("on_order_cancelled", callers[t].it[1]))
          /\ event_mutex_' = "none"
          /\ callers' = [callers EXCEPT ![t].pc = "erase", ![t].pushed = @ + 1]
          /\ UNCHANGED <<state_mutex_, active_orders_>>
       \/ /\ callers[t].pc = "erase"
          /\ active_orders_' = MapErase(active_orders_, callers[t].arg[1])
          /\ state_mutex_' = [state_mutex_ EXCEPT !.writer = "none"]
          /\ callers' = [callers EXCEPT
                            ![t] = [IdleCaller EXCEPT !.op = callers[t].op,
                                                      !.ret = <<TRUE>>]]
          /\ UNCHANGED <<event_mutex_, event_queue_>>
    /\ UNCHANGED <<positions_, balances_, daily_pnl_, total_pnl_, risk_limits_,
                   callbacks_, running_, fills, last, snapshot, limit_order>>

\* TradingCore::modify_order: the whole body under the exclusive lock
modify_order_thread(t) ==
    /\ callers[t].op = "modify_order"
    /\ callers[t].pc = "locked"
    /\ modify_order(callers[t].arg[1][1], callers[t].arg[1][2], callers[t].arg[1][3])
    /\ state_mutex_' = [state_mutex_ EXCEPT !.writer = "none"]
    /\ callers' = [callers EXCEPT
                      ![t] = [IdleCaller EXCEPT !.op = callers[t].op,
                                                !.ret = <<last'.ret>>]]
    /\ UNCHANGED <<event_mutex_, snapshot, limit_order>>

\* TradingCore::set_risk_limits and set_callbacks: the assignment under the
\* exclusive lock
setter_thread(t) ==
    /\ callers[t].op \in {"set_risk_limits", "set_callbacks"}
    /\ callers[t].pc = "locked"
    /\ IF callers[t].op = "set_risk_limits"
       THEN set_risk_limits(callers[t].arg[1])
       ELSE set_callbacks(callers[t].arg[1])
    /\ state_mutex_' = [state_mutex_ EXCEPT !.writer = "none"]
    /\ callers' = [callers EXCEPT
                      ![t] = [IdleCaller EXCEPT !.op = callers[t].op]]
    /\ UNCHANGED <<event_mutex_, snapshot, limit_order>>

\* TradingCore::update_position and update_balance: under the exclusive
\* lock the entry is updated and, when the callback is set, the copy is
\* pushed under event_mutex_; both locks are released on return
update_thread(t) ==
    /\ callers[t].op \in {"update_position", "update_balance"}
    /\ LET installed ==
               IF callers[t].op = "update_position"
               THEN callbacks_.on_position_update
               ELSE callbacks_.on_balance_update
       IN  \/ /\ callers[t].pc = "locked"
              /\ installed
              /\ callers' = [callers EXCEPT ![t].pc = "lock_event"]
              /\ UNCHANGED <<state_mutex_, event_mutex_, core_vars>>
           \/ /\ \/ callers[t].pc = "locked" /\ ~installed
                 \/ callers[t].pc = "locked_event"
              /\ IF callers[t].op = "update_position"
                 THEN update_position(callers[t].arg[1])
                 ELSE update_balance(callers[t].arg[1][1], callers[t].arg[1][2])
              /\ state_mutex_' = [state_mutex_ EXCEPT !.writer = "none"]
              /\ event_mutex_' = "none"
              /\ callers' = [callers EXCEPT
                                ![t] = [IdleCaller EXCEPT !.op = callers[t].op]]
              /\ UNCHANGED <<snapshot, limit_order>>

\* TradingCore::get_active_orders: the copy under the shared lock
get_active_orders_thread(t) ==
    /\ callers[t].op = "get_active_orders"
    /\ callers[t].pc = "locked_shared"
    /\ state_mutex_' = [state_mutex_ EXCEPT !.readers[t] = @ - 1]
    /\ callers' = [callers EXCEPT
                      ![t] = [IdleCaller EXCEPT !.op = callers[t].op,
                                                !.ret = <<get_active_orders>>]]
    /\ UNCHANGED <<event_mutex_, core_vars>>

\* TradingCore::get_statistics: under its shared lock it calls
\* get_unrealized_pnl, which takes a shared lock of its own on the same
\* mutex; both are released on the way out
get_statistics_thread(t) ==
    /\ callers[t].op = "get_statistics"
    /\ \/ /\ callers[t].pc = "locked_shared"
          /\ callers' = [callers EXCEPT ![t].pc = "lock_nested"]
          /\ UNCHANGED state_mutex_
       \/ /\ callers[t].pc = "locked_nested"
          /\ state_mutex_' = [state_mutex_ EXCEPT !.readers[t] = @ - 2]
          /\ callers' = [callers EXCEPT
                            ![t] = [IdleCaller EXCEPT !.op = callers[t].op]]
    /\ UNCHANGED <<event_mutex_, core_vars>>

\* A step of thread t inside the method it has entered
thread(t) ==
    /\ \/ acquire(t)
       \/ submit_order_thread(t)
       \/ cancel_order_thread(t)
       \/ modify_order_thread(t)
       \/ setter_thread(t)
       \/ update_thread(t)
       \/ get_active_orders_thread(t)
       \/ get_statistics_thread(t)
    /\ UNCHANGED <<book_vars, dispatch_vars, time_vars, market_vars>>

(***************************************************************************)
(* GlobalClock, the OrderBookManager and the TradingCoreBuilder            *)
(*                                                                         *)
(* order_books_ holds the symbols that have an OrderBook.  The market tick *)
(* callback takes two steps: get_order_book, which returns a reference and *)
(* releases the mutex of the manager, and the update through the reference.*)
(***************************************************************************)
\* GlobalClock::initialize: instance_ is a started Clock of the mode
GlobalClock_initialize(mode) ==
    /\ instance_' = <<Clock_after_start(NewClock(mode, wall))>>
    /\ UNCHANGED <<wall, scheduled, delivered, observed_now, stamped>>

\* GlobalClock::instance: instance_ as the call leaves it, initialised with
\* the default mode when it was null
GlobalClock_instance ==
    IF instance_ = << >>
    THEN <<Clock_after_start(NewClock("REALTIME", wall))>>
    ELSE instance_

\* A member stamped with GlobalClock::now(), which is now() of instance(),
\* next to what now() of the TradingCore returns at that moment; stamped
\* keeps the latest one
Stamped(member) ==
    [member |-> member, timestamp |-> Clock_now(GlobalClock_instance[1]),
     now |-> Clock_now(clock_), mode_ |-> clock_.mode_]

\* LimitOrder::LimitOrder: creation_time_(GlobalClock::now()),
\* last_update_time_(creation_time_)
LimitOrder_LimitOrder ==
    /\ stamped' = <<Stamped("creation_time_")>>
    /\ instance_' = GlobalClock_instance
    /\ UNCHANGED <<wall, scheduled, delivered, observed_now>>

\* TradingCore::initialize, the risk limits afterwards: the defaults are
\* installed when max_position_size is zero
initialize_risk_limits(limits) ==
    IF Decimal_is_zero(limits.max_position_size)
    THEN [max_position_size |-> Decimal_from_string(<<FALSE, 1000, <<0>> >>),
          max_order_size |-> Decimal_from_string(<<FALSE, 100, <<0>> >>),
          max_daily_loss |-> Decimal_from_string(<<FALSE, 10000, <<0>> >>),
          enable_position_limits |-> TRUE, enable_order_limits |-> TRUE,
          enable_loss_limits |-> TRUE]
    ELSE limits

\* TradingCore::initialize: a new Clock (the old one is stopped and
\* destroyed), a new OrderBookManager (the old one is destroyed with its
\* books), the default risk limits when none are set
initialize(clock_mode) ==
    /\ timer_joinable_now(timer)
    /\ clock_' = NewClock(clock_mode, wall)
    /\ timer' = NoTimer
    /\ order_books_' = {}
    /\ tick' = after_destroy(order_books_)
    /\ risk_limits_' = initialize_risk_limits(risk_limits_)
    /\ last' = Call("initialize", clock_mode, TRUE)
    /\ UNCHANGED <<active_orders_, positions_, balances_, daily_pnl_, total_pnl_,
                   callbacks_, event_queue_, running_, fills, snapshot,
                   limit_order, event_processor_>>

\* TradingCoreBuilder::build on a builder with members clock_mode_,
\* risk_limits_ (RiskLimits() unless with_risk_limits was called) and
\* callbacks_: TradingCore(), initialize(clock_mode_),
\* set_risk_limits(risk_limits_), which replaces what initialize installed,
\* and set_callbacks(callbacks_).  The model goes on with the core built.
build(builder) ==
    /\ active_orders_' = EmptyMap
    /\ positions_' = EmptyMap
    /\ balances_' = EmptyMap
    /\ daily_pnl_' = 0
    /\ total_pnl_' = 0
    /\ event_queue_' = << >>
    /\ running_' = FALSE
    /\ event_processor_' = 0
    /\ clock_' = NewClock(builder.clock_mode_, wall)
    /\ timer' = NoTimer
    /\ order_books_' = {}
    /\ tick' = IdleTick
    /\ risk_limits_' = builder.risk_limits_
    /\ callbacks_' = builder.callbacks_
    /\ last' = Call("build", builder, TRUE)
    /\ UNCHANGED <<fills, snapshot, limit_order>>

\* The market tick callback, first statement: get_order_book(tick.symbol),
\* which creates the OrderBook when the symbol has none (the constructor
\* stamps last_update_time_) and returns a reference to it
market_tick_get_order_book(symbol) ==
    /\ tick.pc = "idle"
    /\ QueueHasRoom
    /\ order_books_' = order_books_ \cup {symbol}
    /\ tick' = [tick EXCEPT !.pc = "holding", !.symbol = symbol,
                            !.dangling = FALSE]
    /\ IF symbol \in order_books_
       THEN UNCHANGED <<bids_, asks_, last_update_id_, stamped, instance_>>
       ELSE /\ bids_' = NewBook.bids
            /\ asks_' = NewBook.asks
            /\ last_update_id_' = NewBook.last_update_id
            /\ stamped' = <<Stamped("last_update_time_")>>
            /\ instance_' = GlobalClock_instance
    /\ UNCHANGED <<update_callbacks_, writers, reader, calls_begun, epoch>>
    /\ UNCHANGED <<core_vars, wall, scheduled, delivered, observed_now>>

\* The market tick callback, the rest: update_bid or update_ask through the
\* reference (last_update_time_ is stamped), then the on_market_data
\* invocation pushed when the callback is set.  Through a reference to a
\* destroyed OrderBook the write goes to freed storage and the handler
\* carries on, or the thread faults.
market_tick_update(is_bid) ==
    /\ tick.pc = "holding"
    /\ LET call == IF is_bid THEN update_bid(100, 100, 1)
                   ELSE update_ask(101, 100, 1)
           event == KeyEvent("on_market_data", tick.symbol)
       IN  IF ~tick.dangling
           THEN /\ OrderBook_mutate(call)
                /\ stamped' = <<Stamped("last_update_time_")>>
                /\ instance_' = GlobalClock_instance
                /\ event_queue_' = Enqueue(event_queue_, event)
                /\ tick' = [tick EXCEPT !.pc = "idle"]
           ELSE \E outcome \in {"unnoticed", "crashed"} :
                    /\ tick' = [tick EXCEPT
                                    !.pc = IF outcome = "crashed"
                                           THEN "crashed" ELSE "idle",
                                    !.dangling = FALSE,
                                    !.used_destroyed = TRUE]
                    /\ IF outcome = "crashed"
                       THEN UNCHANGED <<stamped, instance_, event_queue_, last>>
                       ELSE /\ stamped' = <<Stamped("last_update_time_")>>
                            /\ instance_' = GlobalClock_instance
                            /\ event_queue_' = Enqueue(event_queue_, event)
                            /\ last' = Call(call.kind, call, TRUE)
                    /\ UNCHANGED book_vars
    /\ UNCHANGED <<active_orders_, positions_, balances_, daily_pnl_, total_pnl_,
                   risk_limits_, callbacks_, running_, fills, snapshot,
                   limit_order, order_books_, wall, scheduled, delivered,
                   observed_now>>

\* TradingCore::unsubscribe_market_data: remove_order_book(symbol) erases
\* the entry and destroys the OrderBook
unsubscribe_market_data(symbol) ==
    /\ order_books_' = order_books_ \ {symbol}
    /\ tick' = after_destroy({symbol})
    /\ last' = Call("unsubscribe_market_data", symbol, TRUE)
    /\ UNCHANGED store_vars

(***************************************************************************)
(* Specifications                                                          *)
(***************************************************************************)
\* The public interface of TradingCore and its event thread.
Next ==
    \/ \E order \in OrderInputs : submit_order(order) /\ UNCHANGED <<snapshot, limit_order, book_vars, dispatch_vars, time_vars, lock_vars, market_vars>>
    \/ \E id \in OrderIds : cancel_order(id) /\ UNCHANGED <<snapshot, limit_order, book_vars, dispatch_vars, time_vars, lock_vars, market_vars>>
    \/ \E id \in OrderIds, m \in {<<200, 0>>, <<0, 300>>, <<200, 300>>} :
           modify_order(id, m[1], m[2]) /\ UNCHANGED <<snapshot, limit_order, book_vars, dispatch_vars, time_vars, lock_vars, market_vars>>
    \/ \E limits \in RiskLimitInputs : set_risk_limits(limits) /\ UNCHANGED <<snapshot, limit_order, book_vars, dispatch_vars, time_vars, lock_vars, market_vars>>
    \/ \E callbacks \in {NoCallbacks, AllCallbacks} : set_callbacks(callbacks) /\ UNCHANGED <<snapshot, limit_order, book_vars, dispatch_vars, time_vars, lock_vars, market_vars>>
    \/ start /\ UNCHANGED <<snapshot, limit_order, book_vars, time_vars, lock_vars, market_vars>>
    \/ stop /\ UNCHANGED <<snapshot, limit_order, book_vars, time_vars, lock_vars, market_vars>>
    \/ process_events /\ UNCHANGED <<snapshot, limit_order, book_vars, dispatch_vars, time_vars, lock_vars, market_vars>>

Spec == Init /\ [][Next]_vars

\* A step of the thread running process_events
event_thread ==
    process_events
        /\ UNCHANGED <<snapshot, limit_order, book_vars, dispatch_vars, time_vars, lock_vars, market_vars>>

\* The calls that queue listener invocations, the calls that start and stop
\* the core, and the event thread.
NextDispatch ==
    \/ \E order \in OrderInputs : submit_order(order) /\ UNCHANGED <<snapshot, limit_order, book_vars, dispatch_vars, time_vars, lock_vars, market_vars>>
    \/ \E id \in OrderIds : cancel_order(id) /\ UNCHANGED <<snapshot, limit_order, book_vars, dispatch_vars, time_vars, lock_vars, market_vars>>
    \/ \E limits \in RiskLimitInputs : set_risk_limits(limits) /\ UNCHANGED <<snapshot, limit_order, book_vars, dispatch_vars, time_vars, lock_vars, market_vars>>
    \/ \E callbacks \in {NoCallbacks, AllCallbacks} : set_callbacks(callbacks) /\ UNCHANGED <<snapshot, limit_order, book_vars, dispatch_vars, time_vars, lock_vars, market_vars>>
    \/ start /\ UNCHANGED <<snapshot, limit_order, book_vars, time_vars, lock_vars, market_vars>>
    \/ stop /\ UNCHANGED <<snapshot, limit_order, book_vars, time_vars, lock_vars, market_vars>>
    \/ event_thread

\* The scheduler is fair to the event thread, which sleeps 100 microseconds
\* between two looks at the queue: it keeps being run.
SpecLive == Init /\ [][NextDispatch]_vars /\ WF_vars(event_thread)

\* The order gate together with the fill accounting that feeds it.
NextFill ==
    \/ \E order \in FillOrderInputs : submit_order(order) /\ UNCHANGED <<snapshot, limit_order, book_vars, dispatch_vars, time_vars, lock_vars, market_vars>>
    \/ \E limits \in
              RiskLimitInputs
                  \cup {[max_position_size |-> 900, max_order_size |-> 900,
                         max_daily_loss |-> 100, enable_position_limits |-> TRUE,
                         enable_order_limits |-> TRUE, enable_loss_limits |-> TRUE]} :
           set_risk_limits(limits) /\ UNCHANGED <<snapshot, limit_order, book_vars, dispatch_vars, time_vars, lock_vars, market_vars>>
    \/ \E trade \in [client_order_id : {"a"}, symbol : {"BTC-USDT"},
                      side : {"BUY", "SELL"}, price : {100, 200},
                      quantity : {100, 600}] :
           update_position(trade) /\ UNCHANGED <<snapshot, limit_order, book_vars, dispatch_vars, time_vars, lock_vars, market_vars>>
    \/ \E delta \in {100, -100} : update_balance("USDT", delta) /\ UNCHANGED <<snapshot, limit_order, book_vars, dispatch_vars, time_vars, lock_vars, market_vars>>
    \/ export_state /\ UNCHANGED <<limit_order, book_vars, dispatch_vars, time_vars, lock_vars, market_vars>>
    \/ reset /\ UNCHANGED <<limit_order, book_vars, dispatch_vars, time_vars, lock_vars>>
    \/ snapshot # NoSnapshot /\ import_state(snapshot[1]) /\ UNCHANGED <<limit_order, book_vars, dispatch_vars, time_vars, lock_vars, market_vars>>

SpecFill == Init /\ [][NextFill]_vars

\* The methods of LimitOrder that write its status or its filled quantity.
NextOrder ==
    \/ \E status \in ({"PENDING", "OPEN", "PARTIAL"} \cup TerminalStatus) :
           /\ LimitOrder_call("set_status", status,
                              [limit_order EXCEPT !.status = status])
           /\ UNCHANGED fills
    \/ \E filled \in {0, 50, 100} :
           /\ LimitOrder_call("set_filled_quantity", filled,
                              LimitOrder_set_filled_quantity(limit_order, filled))
           /\ UNCHANGED fills
    \/ \E q \in {60, 150}, p \in {100} :
           LimitOrder_fill_call("apply_fill", <<q, p>>,
                                LimitOrder_apply_fill(limit_order, q, p))
    \/ \E q \in {60, 150}, p \in {100} :
           LimitOrder_fill_call("add_execution", <<q, p>>,
                                LimitOrder_add_execution(limit_order, q, p))
    \/ /\ LimitOrder_call("cancel", "", LimitOrder_cancel(limit_order))
       /\ UNCHANGED fills

SpecOrder == Init /\ [][NextOrder]_vars

\* LimitOrders written to JSON and read back.
NextJson ==
    \/ \E order \in StoredOrders : LimitOrder_stored(order)
    \/ json_round_trip

SpecJson == Init /\ [][NextJson]_vars

\* One OrderBook with its listeners, used by two writing threads.
NextBook ==
    \/ \E t \in Writers, call \in BookCalls : begin_call(t, call) /\ UNCHANGED <<core_vars, dispatch_vars, time_vars, lock_vars, market_vars>>
    \/ \E t \in Writers : side_step(t) /\ UNCHANGED <<core_vars, dispatch_vars, time_vars, lock_vars, market_vars>>
    \/ \E t \in Writers : set_id_step(t) /\ UNCHANGED <<core_vars, dispatch_vars, time_vars, lock_vars, market_vars>>
    \/ \E t \in Writers : notify_step(t) /\ UNCHANGED <<core_vars, dispatch_vars, time_vars, lock_vars, market_vars>>
    \/ \E callback \in { [name |-> "quiet", throws |-> FALSE], [name |-> "thrower", throws |-> TRUE] } :
           register_update_callback(callback) /\ UNCHANGED <<core_vars, dispatch_vars, time_vars, lock_vars, market_vars>>

SpecBook == Init /\ [][NextBook]_vars

\* One OrderBook used by a writing thread (the market-data feed) and a
\* reading thread (the strategy asking for best_bid / best_ask).
NextBookRead ==
    \/ \E call \in BookCalls : begin_call("w1", call) /\ UNCHANGED <<core_vars, dispatch_vars, time_vars, lock_vars, market_vars>>
    \/ side_step("w1") /\ UNCHANGED <<core_vars, dispatch_vars, time_vars, lock_vars, market_vars>>
    \/ set_id_step("w1") /\ UNCHANGED <<core_vars, dispatch_vars, time_vars, lock_vars, market_vars>>
    \/ notify_step("w1") /\ UNCHANGED <<core_vars, dispatch_vars, time_vars, lock_vars, market_vars>>
    \/ \E side \in {"bids", "asks"} : best_begin(side) /\ UNCHANGED <<core_vars, dispatch_vars, time_vars, lock_vars, market_vars>>
    \/ best_return /\ UNCHANGED <<core_vars, dispatch_vars, time_vars, lock_vars, market_vars>>

SpecBookRead == Init /\ [][NextBookRead]_vars

\* One OrderBook fed and queried by a single thread.
NextQuote ==
    \/ \E call \in
              {update_bid(p, a, 1) : p \in {0, 100, 101}, a \in {0, 1, 100}}
                  \cup {update_ask(p, a, 1) : p \in {0, 100, 101}, a \in {0, 1, 100}}
                  \cup {apply_updates(<<OrderBookEntry(100, 100, 1)>>,
                                      <<OrderBookEntry(101, 100, 1),
                                        OrderBookEntry(100, 0, 1)>>, 1)} :
           OrderBook_mutate(call) /\ UNCHANGED <<store_vars, dispatch_vars, time_vars, lock_vars, market_vars>>
    \/ \E is_buy \in BOOLEAN, quantity \in {0, 1, 101, 400} :
           get_impact_price_call(is_buy, quantity) /\ UNCHANGED <<store_vars, dispatch_vars, time_vars, lock_vars, market_vars>>
    \/ is_valid_call /\ UNCHANGED <<store_vars, dispatch_vars, time_vars, lock_vars, market_vars>>

SpecQuote == Init /\ [][NextQuote]_vars

\* A step of the thread running timer_loop
timer_loop == (timer_loop_begin \/ timer_loop_visit) /\ UNCHANGED <<core_vars, book_vars, event_processor_, instance_, stamped, lock_vars, market_vars>>

\* Time passes on the high_resolution_clock
time_passes ==
    /\ wall < MaxTime
    /\ wall' = wall + 1
    /\ UNCHANGED <<clock_, timer, scheduled, delivered, observed_now>>
    /\ UNCHANGED <<core_vars, book_vars, event_processor_, instance_, stamped, lock_vars, market_vars>>

\* One Clock, the threads calling it and its timer thread.
NextClock ==
    \/ Clock_start /\ UNCHANGED <<core_vars, book_vars, event_processor_, instance_, stamped, lock_vars, market_vars>>
    \/ Clock_stop /\ UNCHANGED <<core_vars, book_vars, event_processor_, instance_, stamped, lock_vars, market_vars>>
    \/ \E delay \in {0, 1} : schedule_once(delay) /\ UNCHANGED <<core_vars, book_vars, event_processor_, instance_, stamped, lock_vars, market_vars>>
    \/ \E interval \in {1} :
           schedule_recurring(interval) /\ UNCHANGED <<core_vars, book_vars, event_processor_, instance_, stamped, lock_vars, market_vars>>
    \/ \E time \in {0, 2} : set_time(time) /\ UNCHANGED <<core_vars, book_vars, event_processor_, instance_, stamped, lock_vars, market_vars>>
    \/ \E duration \in {1, -1} : advance_time(duration) /\ UNCHANGED <<core_vars, book_vars, event_processor_, instance_, stamped, lock_vars, market_vars>>
    \/ now /\ UNCHANGED <<core_vars, book_vars, event_processor_, instance_, stamped, lock_vars, market_vars>>
    \/ timer_loop
    \/ time_passes

SpecClock == InitClock /\ [][NextClock]_vars

\* The same under a fair scheduler: the timer thread, which sleeps 100
\* microseconds between two passes, keeps being run, and time keeps passing.
SpecClockLive == SpecClock /\ WF_vars(timer_loop) /\ WF_vars(time_passes)


\* Products and quotients of Decimals between -3.00 and 3.00; a division by
\* zero is not evaluated (it raises SIGFPE).
NextDecimal ==
    \/ \E a, b \in {-300, -150, -100, -1, 0, 1, 10, 50, 100, 150, 200, 300} :
           Decimal_binary("operator*", a, b)
    \/ \E a, b \in {-300, -150, -100, -1, 0, 1, 10, 50, 100, 150, 200, 300} :
           b # 0 /\ Decimal_binary("operator/", a, b)

SpecDecimal == Init /\ [][NextDecimal]_vars

\* Two threads calling the TradingCore at once: c1 trades (it submits,
\* modifies and cancels its order, asks for the statistics and is told of a
\* fill), c2 supervises (it cancels too, lists the active orders, installs
\* limits and callbacks and is told of a transfer).
NextLock ==
    \/ \E c \in { <<"submit_order", BaseOrder>>, <<"cancel_order", "a">>,
                   <<"modify_order", <<"a", -100, 0>> >>,
                   <<"get_statistics", "">>,
                   <<"update_position",
                     [client_order_id |-> "a", symbol |-> "BTC-USDT",
                      side |-> "BUY", price |-> 100, quantity |-> 100]>> } :
           /\ enter("c1", c[1], c[2])
           /\ UNCHANGED <<book_vars, dispatch_vars, time_vars, market_vars>>
    \/ \E c \in { <<"cancel_order", "a">>, <<"get_active_orders", "">>,
                   <<"set_callbacks", AllCallbacks>>,
                   <<"update_balance", <<"USDT", 100>> >> }
                 \cup {<<"set_risk_limits", limits>> :
                           limits \in {l \in RiskLimitInputs :
                                           ~l.enable_loss_limits}} :
           /\ enter("c2", c[1], c[2])
           /\ UNCHANGED <<book_vars, dispatch_vars, time_vars, market_vars>>
    \/ \E t \in Callers : thread(t)

\* A thread that can take a step again and again takes it: the scheduler
\* runs every thread and a mutex that is free again and again is handed to
\* a thread blocked on it.
SpecLock ==
    Init /\ [][NextLock]_vars /\ \A t \in Callers : SF_vars(thread(t))

\* A TradingCore from the builder, the market tick callback on the thread of
\* the feed, and the calls that destroy OrderBooks.
NextMarket ==
    \/ \E clock_mode \in {"REALTIME", "BACKTEST"},
          risk_limits \in {DefaultRiskLimits} \cup RiskLimitInputs,
          callbacks \in {NoCallbacks, AllCallbacks} :
           build([clock_mode_ |-> clock_mode, risk_limits_ |-> risk_limits,
                  callbacks_ |-> callbacks])
               /\ UNCHANGED <<book_vars, time_vars, lock_vars>>
    \/ \E clock_mode \in {"REALTIME", "BACKTEST"} :
           initialize(clock_mode) /\ UNCHANGED <<book_vars, time_vars, lock_vars>>
    \/ submit_order(BaseOrder)
           /\ UNCHANGED <<snapshot, limit_order, book_vars, dispatch_vars, time_vars, lock_vars, market_vars>>
    \/ market_tick_get_order_book("BTC-USDT") /\ UNCHANGED <<dispatch_vars, lock_vars>>
    \/ \E is_bid \in BOOLEAN :
           market_tick_update(is_bid) /\ UNCHANGED <<dispatch_vars, lock_vars>>
    \/ unsubscribe_market_data("BTC-USDT")
           /\ UNCHANGED <<book_vars, dispatch_vars, time_vars, lock_vars>>
    \/ reset /\ UNCHANGED <<limit_order, book_vars, dispatch_vars, time_vars, lock_vars>>

SpecMarket == Init /\ [][NextMarket]_vars

\* Orders and OrderBooks stamped while time passes: a TradingCore built in
\* either clock mode, the GlobalClock, and the market tick callback.
NextStamp ==
    \/ \E clock_mode \in {"REALTIME", "BACKTEST"} :
           build([clock_mode_ |-> clock_mode, risk_limits_ |-> DefaultRiskLimits,
                  callbacks_ |-> NoCallbacks])
               /\ UNCHANGED <<book_vars, time_vars, lock_vars>>
    \/ \E mode \in {"REALTIME", "BACKTEST"} :
           GlobalClock_initialize(mode)
               /\ UNCHANGED <<core_vars, book_vars, dispatch_vars, lock_vars, market_vars>>
    \/ LimitOrder_LimitOrder
           /\ UNCHANGED <<core_vars, book_vars, dispatch_vars, lock_vars, market_vars>>
    \/ market_tick_get_order_book("BTC-USDT") /\ UNCHANGED <<dispatch_vars, lock_vars>>
    \/ \E is_bid \in BOOLEAN :
           market_tick_update(is_bid) /\ UNCHANGED <<dispatch_vars, lock_vars>>
    \/ time_passes

SpecStamp == Init /\ [][NextStamp]_vars

(***************************************************************************)
(* Properties                                                              *)
(***************************************************************************)
\* The state a call may change besides the record of the call itself.
core_state ==
    <<active_orders_, positions_, balances_, daily_pnl_, total_pnl_,
      risk_limits_, callbacks_, event_queue_, running_>>

\* C1: submit_order of an otherwise valid order whose quantity exceeds
\* max_order_size, with enable_order_limits set, returns false and leaves the
\* active-order map as it was; with on_order_rejected installed it queues
\* exactly one on_order_rejected invocation carrying that order's id, and the
\* event thread of a running core takes each queued invocation off the queue
\* as it runs it, so the callback runs once for it.
C1_OversizeOrderRejectedOnce ==
    [][ /\ ( /\ last'.op = "submit_order"
             /\ submit_order(last'.arg)
             /\ validate_order(last'.arg)
             /\ risk_limits_.enable_order_limits
             /\ last'.arg.quantity > risk_limits_.max_order_size )
           => /\ last'.ret = FALSE
              /\ active_orders_' = active_orders_
              /\ callbacks_.on_order_rejected =>
                     event_queue_' =
                         Append(event_queue_,
                                [kind |-> "on_order_rejected",
                                 id |-> last'.arg.client_order_id,
                                 status |-> last'.arg.status])
        /\ ( /\ process_events
             /\ Head(event_queue_).kind = "on_order_rejected"
             /\ callbacks_.on_order_rejected )
           => /\ last'.ret = TRUE
              /\ last'.arg = Head(event_queue_)
              /\ event_queue_' = Tail(event_queue_)
      ]_vars

\* C1 witness: on a running core with on_order_rejected installed and a
\* positive max_order_size, an order that passes validation was just refused
\* for its size and its rejection is the newest entry of the queue.
C1_Witness ==
    /\ last.op = "submit_order"
    /\ last.ret = FALSE
    /\ validate_order(last.arg)
    /\ risk_limits_.enable_order_limits
    /\ risk_limits_.max_order_size > 0
    /\ last.arg.quantity > risk_limits_.max_order_size
    /\ callbacks_.on_order_rejected
    /\ running_
    /\ last.arg.client_order_id \notin DOMAIN active_orders_
    /\ event_queue_ # << >>
    /\ event_queue_[Len(event_queue_)].kind = "on_order_rejected"
    /\ event_queue_[Len(event_queue_)].id = last.arg.client_order_id

\* |current position + (BUY ? +quantity : -quantity)| as a number.
HypotheticalMagnitude(order) ==
    LET hypothetical ==
            position_of(order.trading_pair).quantity +
            (IF order.side = "BUY" THEN order.quantity ELSE -order.quantity)
    IN  IF hypothetical < 0 THEN -hypothetical ELSE hypothetical

\* C2 (as claimed): with enable_position_limits set, submit_order returns
\* false and stores nothing whenever the position of the order's pair plus
\* (BUY) or minus (SELL) the order quantity exceeds max_position_size in
\* absolute value.
C2_PositionLimitAsClaimed ==
    [][ ( /\ last'.op = "submit_order"
          /\ submit_order(last'.arg)
          /\ risk_limits_.enable_position_limits
          /\ HypotheticalMagnitude(last'.arg) > risk_limits_.max_position_size )
        => /\ last'.ret = FALSE
           /\ active_orders_' = active_orders_
      ]_vars

\* An order is invalid in the sense of the specified validate(order).
InvalidAsSpecified(order) ==
    \/ order.client_order_id = ""
    \/ order.trading_pair = ""
    \/ order.quantity <= 0
    \/ (order.type = "LIMIT" /\ order.price <= 0)
    \/ order.filled_quantity > order.quantity

\* C3 (as claimed): submit_order returns false and changes no state when the
\* order has an empty id, an empty pair, quantity <= 0, type LIMIT with
\* price <= 0, or filled_quantity > quantity.
C3_InvalidOrderAsClaimed ==
    [][ ( /\ last'.op = "submit_order"
          /\ submit_order(last'.arg)
          /\ InvalidAsSpecified(last'.arg) )
        => /\ last'.ret = FALSE
           /\ UNCHANGED core_state
      ]_vars

\* C4 (as claimed): submit_order of an order whose client_order_id is already
\* in the active-order map returns false and leaves the stored order alone.
C4_DuplicateIdAsClaimed ==
    [][ ( /\ last'.op = "submit_order"
          /\ submit_order(last'.arg)
          /\ last'.arg.client_order_id \in DOMAIN active_orders_ )
        => /\ last'.ret = FALSE
           /\ active_orders_' = active_orders_
      ]_vars

\* The state cancel_order leaves when the id is absent.
CancelAbsent ==
    /\ last'.ret = FALSE
    /\ UNCHANGED core_state

\* C5 (as claimed): cancel_order(id) for an id in the active-order map marks
\* the order CANCELLED, enqueues one on_order_cancelled event carrying it,
\* removes it from the map and returns true; for an id not in the map it
\* returns false, changes no state and enqueues nothing.
C5_CancelAsClaimed ==
    [][ \A id \in OrderIds :
          cancel_order(id)
          => IF id \in DOMAIN active_orders_
             THEN /\ last'.ret = TRUE
                  /\ active_orders_' = MapErase(active_orders_, id)
                  /\ event_queue_' =
                         Append(event_queue_,
                                [kind |-> "on_order_cancelled", id |-> id,
                                 status |-> "CANCELLED"])
             ELSE CancelAbsent
      ]_vars

\* C5 (amended): as claimed, except that the on_order_cancelled event is
\* enqueued only when an on_order_cancelled callback is installed; with none
\* installed the order is removed, true is returned and the queue is left
\* as it was.
C5_CancelAmended ==
    [][ \A id \in OrderIds :
          cancel_order(id)
          => IF id \in DOMAIN active_orders_
             THEN /\ last'.ret = TRUE
                  /\ active_orders_' = MapErase(active_orders_, id)
                  /\ event_queue_' =
                         IF callbacks_.on_order_cancelled
                         THEN Append(event_queue_,
                                     [kind |-> "on_order_cancelled", id |-> id,
                                      status |-> "CANCELLED"])
                         ELSE event_queue_
                  /\ UNCHANGED <<positions_, balances_, daily_pnl_, total_pnl_,
                                 risk_limits_, callbacks_, running_>>
             ELSE CancelAbsent
      ]_vars

\* C5 witness: an active order was just cancelled with the callback
\* installed: it is gone from the map and its event, marked CANCELLED, is the
\* newest entry of the queue.
C5_Witness ==
    /\ last.op = "cancel_order"
    /\ last.ret = TRUE
    /\ callbacks_.on_order_cancelled
    /\ last.arg \notin DOMAIN active_orders_
    /\ active_orders_ # EmptyMap
    /\ event_queue_ # << >>
    /\ event_queue_[Len(event_queue_)] =
           [kind |-> "on_order_cancelled", id |-> last.arg, status |-> "CANCELLED"]

\* C6 (as claimed): a fill reported for an order in the active-order map is
\* applied to that order: its filled quantity grows by the fill, and once the
\* filled quantity reaches the quantity the order is removed from the map
\* (and on_order_filled is queued for it).  update_position is the step of
\* the core that takes the reported trade.
C6_FillAppliedAsClaimed ==
    [][ ( /\ last'.op = "update_position"
          /\ update_position(last'.arg)
          /\ last'.arg.client_order_id \in DOMAIN active_orders_ )
        => LET id == last'.arg.client_order_id
               filled == active_orders_[id].filled_quantity + last'.arg.quantity
           IN  IF filled >= active_orders_[id].quantity
               THEN id \notin DOMAIN active_orders_'
               ELSE /\ id \in DOMAIN active_orders_'
                    /\ active_orders_'[id].filled_quantity = filled
                    /\ active_orders_'[id].status = "PARTIAL"
      ]_vars

\* The Decimal nearest zero-ward to the product of two Decimals, as a number:
\* a * b rounded toward zero at the last fractional digit.
ExactProduct(a, b) == TruncDiv(a * b, SCALE_FACTOR)

\* C7 (as claimed): a SELL of q at p against position (Q, avg) adds exactly
\* q * (p - avg) to position.realized_pnl, total_pnl and daily_pnl, takes the
\* quantity to Q - q and leaves average_price unchanged.
C7_SellPnlAsClaimed ==
    [][ ( /\ last'.op = "update_position"
          /\ update_position(last'.arg)
          /\ last'.arg.side = "SELL" )
        => LET trade == last'.arg
               position == position_of(trade.symbol)
               gain == ExactProduct(trade.quantity,
                                    trade.price - position.average_price)
           IN  /\ positions_'[trade.symbol].realized_pnl =
                      position.realized_pnl + gain
               /\ total_pnl_' = total_pnl_ + gain
               /\ daily_pnl_' = daily_pnl_ + gain
               /\ positions_'[trade.symbol].quantity =
                      position.quantity - trade.quantity
               /\ positions_'[trade.symbol].average_price =
                      position.average_price
      ]_vars

\* Two Decimals differ by at most two units of the last fractional digit
\* (the two products and the quotient are each rounded once).
NearlyEqual(a, b) == a - b \in -2 .. 2

\* C8 (as claimed): a BUY of q at p against position (Q, avg) with Q + q # 0
\* yields quantity Q + q and average_price (Q * avg + q * p) / (Q + q).
C8_BuyAverageAsClaimed ==
    [][ ( /\ last'.op = "update_position"
          /\ update_position(last'.arg)
          /\ last'.arg.side = "BUY"
          /\ position_of(last'.arg.symbol).quantity + last'.arg.quantity # 0 )
        => LET trade == last'.arg
               position == position_of(trade.symbol)
               quantity == position.quantity + trade.quantity
               cost == position.quantity * position.average_price
                       + trade.quantity * trade.price
           IN  /\ positions_'[trade.symbol].quantity = quantity
               /\ NearlyEqual(positions_'[trade.symbol].average_price,
                              TruncDiv(cost, quantity))
      ]_vars

\* The order-size and position checks of check_risk_limits pass.
SizeAndPositionPass(order) ==
    /\ ~(risk_limits_.enable_order_limits
         /\ order.quantity > risk_limits_.max_order_size)
    /\ ~(risk_limits_.enable_position_limits
         /\ Decimal_abs(new_position(order)) > risk_limits_.max_position_size)

\* C9 (as claimed): with enable_loss_limits set and the order-size and
\* position checks passing, check_risk_limits(order) is false exactly when
\* daily_pnl < -max_daily_loss, the arithmetic negation of the limit.
C9_LossLimitAsClaimed ==
    \A order \in FillOrderInputs :
        (risk_limits_.enable_loss_limits /\ SizeAndPositionPass(order))
        => (check_risk_limits(order)
            <=> ~(daily_pnl_ < -risk_limits_.max_daily_loss))

\* C10: every order get_active_orders() returns has status OPEN or PARTIAL,
\* whatever status the submitted orders carried.
C10_ActiveOrdersNonTerminal ==
    \A order \in get_active_orders : order.status \in {"OPEN", "PARTIAL"}

\* C10 witness: an order submitted with a terminal status was just accepted
\* and is in the active-order map.
C10_Witness ==
    /\ last.op = "submit_order"
    /\ last.ret = TRUE
    /\ last.arg.status \in TerminalStatus
    /\ last.arg.client_order_id \in DOMAIN active_orders_
    /\ active_orders_[last.arg.client_order_id] \in get_active_orders

C12_RoundTripAsClaimed ==
    [][ (/\ last.op = "reset"
         /\ snapshot # NoSnapshot
         /\ last.arg = snapshot[1]
         /\ last'.op = "import_state"
         /\ last'.arg = snapshot[1])
        => /\ last'.ret = TRUE
           /\ exported_state' = snapshot[1]
           /\ active_orders_' = EmptyMap
      ]_vars

\* C13: once the status of a LimitOrder is FILLED, CANCELLED, REJECTED or
\* EXPIRED, no call of set_status, set_filled_quantity, apply_fill,
\* add_execution or cancel changes it.
C13_TerminalStatusAsClaimed ==
    [][limit_order.status \in TerminalStatus
       => limit_order'.status = limit_order.status]_vars

\* The filled quantity lies between zero and the quantity of the order.
FilledWithinQuantity(order) ==
    0 <= order.filled_quantity /\ order.filled_quantity <= order.quantity

\* C14: apply_fill and add_execution keep 0 <= filled_quantity <= quantity;
\* a fill that would take filled_quantity above quantity leaves it at
\* quantity.
C14_FillClampedAsClaimed ==
    [][ (/\ last'.op \in {"apply_fill", "add_execution"}
         /\ FilledWithinQuantity(limit_order))
        => /\ FilledWithinQuantity(limit_order')
           /\ limit_order.filled_quantity + last'.arg[1] > limit_order.quantity
                  => limit_order'.filled_quantity = limit_order.quantity
      ]_vars

\* C15: apply_fill and add_execution keep the sum of the quantities in the
\* execution ledger equal to filled_quantity (within the tolerance of
\* is_valid), apply_fill by recording an execution of its own.
C15_LedgerMatchesFilledAsClaimed ==
    [][ (/\ last'.op \in {"apply_fill", "add_execution"}
         /\ executions_consistent(limit_order))
        => executions_consistent(limit_order')
      ]_vars

\* The entries of the side an operation works on.
SideEntries(side) == IF side = "bids" THEN bids_ ELSE asks_

\* C16: OrderBookSide update(p, a, id) with a # 0 leaves exactly one level
\* at price p, with amount a and update_id id; with a = 0 it leaves no level
\* at p; the levels at every other price are as before.  In every state no
\* two levels of a side share a price and no level has amount zero.
C16_SideUpdateKeepsOneLevelPerPrice ==
    /\ [][ \A t \in Writers :
              (/\ writers[t].pc = "side"
               /\ writers'[t].applied # writers[t].applied
               /\ Head(writers[t].todo).op = "update")
              => LET op == Head(writers[t].todo)
                     before == SideEntries(op.side)
                     after == IF op.side = "bids" THEN bids_' ELSE asks_'
                     p == op.entry.price
                 IN  /\ {e \in after : e.price = p} =
                            IF op.entry.amount # 0 THEN {op.entry} ELSE {}
                     /\ {e \in after : e.price # p} = {e \in before : e.price # p}
          ]_vars
    /\ [](\A side \in {"bids", "asks"} :
              \A e, f \in SideEntries(side) :
                  /\ e.amount # 0
                  /\ e.price = f.price => e = f)

\* C16 witness: the last update a thread made on a side stored a level with
\* a non-zero amount at a price that already held a different level when the
\* calls in progress began; the side holds the new level and another price.
C16_Witness ==
    \E t \in Writers :
        /\ writers[t].applied # << >>
        /\ LET op == writers[t].applied[Len(writers[t].applied)]
           IN  /\ op.op = "update"
               /\ op.entry.amount # 0
               /\ op.entry \in SideEntries(op.side)
               /\ Cardinality(SideEntries(op.side)) = 2
               /\ \E e \in epoch.base[op.side] :
                      e.price = op.entry.price /\ e # op.entry

\* C17: last_update_id of an OrderBook never decreases, whatever update_bid,
\* update_ask, apply_updates and clear calls are made with whatever ids.
C17_LastUpdateIdMonotonicAsClaimed ==
    [][last_update_id_' >= last_update_id_]_vars

\* C18: when two update calls (update_bid, update_ask, apply_updates) have
\* run concurrently on the book and both have returned, the levels and
\* last_update_id are those of running the two one after the other in one
\* of the two orders, and every listener invocation saw the last_update_id
\* of the call that made it.
C18_UpdatesSerializedAsClaimed ==
    (\A i \in DOMAIN epoch.calls : epoch.calls[i].kind # "clear")
    => /\ (AllIdle /\ Len(epoch.calls) = 2) =>
              book \in { book_after_call(book_after_call(epoch.base, epoch.calls[1]),
                                         epoch.calls[2]),
                         book_after_call(book_after_call(epoch.base, epoch.calls[2]),
                                         epoch.calls[1]) }
       /\ \A t \in Writers :
              \A i \in DOMAIN writers[t].invoked :
                  writers[t].invoked[i].last_update_id =
                      writers[t].call.final_update_id

\* C19: a best_bid() / best_ask() that ran while updates were made on its
\* side returns the best price of the side as it stood when the call read
\* it or after one of those updates, and reads no entry that was erased.
C19_BestReadsSnapshotAsClaimed ==
    reader.returned =>
        /\ reader.ret \in reader.valid
        /\ ~reader.read_freed

\* C20: each update_bid, update_ask and apply_updates call invokes every
\* registered callback exactly once: the callbacks are invoked in one pass
\* of notify_update, the last step of the call, made after every bid entry
\* and then every ask entry of the call has been applied, and a callback
\* that throws does not keep the later ones from being invoked.
C20_EachListenerOncePerUpdate ==
    [][ \A t \in Writers :
          /\ (writers[t].pc = "notify" /\ writers'[t].pc = "idle") =>
                 /\ Len(writers'[t].invoked) = Len(update_callbacks_)
                 /\ \A i \in DOMAIN update_callbacks_ :
                        writers'[t].invoked[i].name = update_callbacks_[i].name
                 /\ writers[t].todo = << >>
                 /\ writers[t].applied =
                        UpdateOps("bids", writers[t].call.bids)
                            \o UpdateOps("asks", writers[t].call.asks)
          /\ (writers'[t].invoked # writers[t].invoked /\ writers'[t].invoked # << >>)
                 => writers[t].pc = "notify"
          /\ (/\ writers[t].pc # "idle"
              /\ writers'[t].pc = "idle"
              /\ writers[t].call.kind # "clear")
                 => writers[t].pc = "notify"
      ]_vars

\* C20 witness: an apply_updates call with bid and ask entries has returned
\* on a book with two callbacks, the first of which throws; both were invoked.
C20_Witness ==
    \E t \in Writers :
        /\ writers[t].pc = "idle"
        /\ writers[t].call.kind = "apply_updates"
        /\ writers[t].call.bids # << >>
        /\ writers[t].call.asks # << >>
        /\ Len(update_callbacks_) = 2
        /\ update_callbacks_[1].throws
        /\ Len(writers[t].invoked) = 2

\* The product and the quotient of two Decimals as the design defines them:
\* the exact result rounded toward zero at the last fractional digit.
Exact_mul(a, b) == TruncDiv(a * b, SCALE_FACTOR)

Exact_div(a, b) == TruncDiv(a * SCALE_FACTOR, b)

\* The amount resting on the levels
RECURSIVE total_amount(_)
total_amount(levels) ==
    IF levels = << >> THEN 0
    ELSE Head(levels).amount + total_amount(Tail(levels))

\* The cost of taking the quantity from the levels in their order,
\* min(level.amount, remaining) at the price of each level
RECURSIVE walk_cost(_, _)
walk_cost(levels, remaining) ==
    IF levels = << >> \/ remaining = 0 THEN 0
    ELSE LET consume == IF Head(levels).amount < remaining
                        THEN Head(levels).amount ELSE remaining
         IN  Exact_mul(consume, Head(levels).price)
                 + walk_cost(Tail(levels), remaining - consume)

\* The side a buy (a sell) is filled from, best price first
opposite_levels(is_buy) ==
    IF is_buy THEN get_levels(asks_, "asks") ELSE get_levels(bids_, "bids")

\* C21: impact_price(is_buy, qty) with qty > 0 walks the opposite side in
\* the order of its comparator, takes min(level.amount, remaining) at the
\* price of each level and returns the total cost divided by qty; it returns
\* zero when qty exceeds what the side holds.
C21_ImpactPriceAsClaimed ==
    (last.op = "get_impact_price" /\ last.arg.quantity > 0)
        => last.ret =
               IF last.arg.quantity > total_amount(opposite_levels(last.arg.is_buy))
               THEN 0
               ELSE Exact_div(walk_cost(opposite_levels(last.arg.is_buy),
                                        last.arg.quantity),
                              last.arg.quantity)

\* C22: on a book whose prices and amounts are all positive, for a quantity
\* q > 0 no larger than the total of the opposite side, impact_price(buy, q)
\* is at least best_ask and impact_price(sell, q) is at most best_bid, the
\* products and the quotient being those of the Decimal.
C22_ImpactBoundedByBestAsClaimed ==
    ( /\ last.op = "get_impact_price"
      /\ last.arg.quantity > 0
      /\ last.arg.quantity <= total_amount(opposite_levels(last.arg.is_buy))
      /\ \A e \in bids_ \cup asks_ : e.price > 0 /\ e.amount > 0 )
        => IF last.arg.is_buy THEN last.ret >= best_ask(book)
           ELSE last.ret <= best_bid(book)

\* C23: on every book update_bid, update_ask and apply_updates can produce,
\* is_valid() is false exactly when both sides hold a level and the best bid
\* is at or above the best ask.
C23_ValidUnlessCrossedAsClaimed ==
    last.op = "is_valid"
        => ( last.ret = FALSE
               <=> /\ bids_ # {}
                   /\ asks_ # {}
                   /\ OrderBookSide_best(bids_, "bids").price
                          >= OrderBookSide_best(asks_, "asks").price )

\* C24: queued listener invocations are executed by the single event thread
\* in the order they were queued, each at most once: the queue changes only
\* by an invocation appended at its back or by the event thread of a running
\* core taking its front and executing that one.  Under a fair scheduler
\* every queued invocation is eventually executed if the core is running
\* from some point on for good: the queue keeps being found empty or being
\* served, so each invocation reaches the front and is taken.
C24_QueueServedInOrder ==
    /\ [][ \/ event_queue_' = event_queue_
           \/ /\ Len(event_queue_') = Len(event_queue_) + 1
              /\ SubSeq(event_queue_', 1, Len(event_queue_)) = event_queue_
           \/ /\ event_queue_ # << >>
              /\ event_queue_' = Tail(event_queue_)
              /\ running_
              /\ event_processor_ = 1
              /\ last'.op = "process_events"
              /\ last'.arg = Head(event_queue_) ]_vars
    /\ (<>[]running_) =>
           []<>(event_queue_ = << >> \/ last.op = "process_events")

\* C24 witness: two invocations were queued on a running core and the event
\* thread has just executed the older one; the newer one is at the front.
C24_Witness ==
    /\ running_
    /\ last.op = "process_events"
    /\ event_queue_ # << >>
    /\ event_queue_[1] # last.arg

\* C25: start() and stop() are idempotent: start() on a running core and
\* stop() on a stopped core change nothing; after any sequence of them at
\* most one event thread exists, and one exists exactly when is_running().
C25_StartStopIdempotent ==
    /\ [][ /\ (last'.op = "start" /\ start /\ running_)
               => UNCHANGED <<core_state, dispatch_vars>>
           /\ (last'.op = "stop" /\ stop /\ ~running_)
               => UNCHANGED <<core_state, dispatch_vars>> ]_vars
    /\ [](event_processor_ <= 1 /\ (event_processor_ = 1 <=> running_))

\* C25 witness: start() has just been called on a core that was running,
\* which has its one event thread.
C25_Witness ==
    /\ last.op = "start"
    /\ last.ret = FALSE
    /\ running_
    /\ event_processor_ = 1

\* The schedule_once call with this id was made on a running REALTIME clock,
\* which is running.
once_on_running_clock(id) ==
    /\ id <= Len(scheduled)
    /\ ~scheduled[id].recurring
    /\ scheduled[id].running
    /\ clock_.mode_ = "REALTIME"
    /\ clock_.running_

\* The deliveries of the callback so far
deliveries(id) == {i \in 1 .. Len(delivered) : delivered[i].id = id}

\* C26: a callback registered with schedule_once(delay, cb) on a running
\* REALTIME clock is delivered exactly once: never before now() + delay as
\* computed at registration, never twice, and eventually while the clock
\* keeps running.
C26_OnceDeliveredAsClaimed ==
    /\ [](\A id \in 1 .. MaxScheduled :
              once_on_running_clock(id) =>
                  /\ Cardinality(deliveries(id)) <= 1
                  /\ \A i \in deliveries(id) :
                         delivered[i].at >= scheduled[id].registered_at
                                                + scheduled[id].period)
    /\ \A id \in 1 .. MaxScheduled :
           once_on_running_clock(id) ~> (deliveries(id) # {} \/ ~clock_.running_)

\* C27: for schedule_recurring(interval, cb) registered at t0 the k-th due
\* time is t0 + k * interval whenever the dispatcher polls and however long
\* the callback runs; a poll delivers the callback at most once.
C27_RecurringStepsAsClaimed ==
    \A i \in 1 .. Len(clock_.events_) :
        LET event == clock_.events_[i]
        IN  event.recurring =>
                event.scheduled_time =
                    scheduled[event.id].registered_at
                        + (Cardinality(deliveries(event.id)) + 1)
                              * scheduled[event.id].period

\* C28: in SIMULATION mode start() creates a dispatcher as it does in
\* REALTIME mode, and a callback registered with schedule_once is delivered
\* eventually once now() has reached its scheduled time.
C28_SimulatedDispatcherAsClaimed ==
    /\ []((clock_.mode_ = "SIMULATION" /\ clock_.running_) => timer.alive)
    /\ \A id \in 1 .. MaxScheduled :
           ( /\ clock_.mode_ = "SIMULATION"
             /\ clock_.running_
             /\ id <= Len(scheduled)
             /\ ~scheduled[id].recurring
             /\ Clock_now(clock_) >= scheduled[id].registered_at
                                         + scheduled[id].period )
               ~> (deliveries(id) # {} \/ ~clock_.running_)

\* C29: the values successive calls of now() on one Clock return never
\* decrease, in any mode, whatever set_time, advance_time, start and stop
\* calls come between them.
C29_NowMonotonicAsClaimed ==
    [][observed_now' >= observed_now]_vars

\* C30: from_json(to_json(o)) has exactly the stored members of o: ids,
\* pair, side, type, currencies, price, quantity, filled_quantity, status,
\* position tag, exchange_order_id, execution ledger, rejection reason,
\* expiry time, and creation_time and last_update_time to the nanosecond.
C30_JsonRoundTripAsClaimed ==
    last.op = "from_json" => last.ret = limit_order

\* The values a Decimal can hold
Representable(x) == x \in -(Modulus \div 2) .. (Modulus \div 2 - 1)

\* C31: whenever the exact product (the exact quotient, for a divisor other
\* than zero) of two Decimals is representable, a * b (a / b) is that exact
\* result rounded toward zero at the last fractional digit.
C31_MulDivExactAsClaimed ==
    /\ ( /\ last.op = "operator*"
         /\ Representable(Exact_mul(last.arg[1], last.arg[2])) )
       => last.ret = Exact_mul(last.arg[1], last.arg[2])
    /\ ( /\ last.op = "operator/"
         /\ Representable(Exact_div(last.arg[1], last.arg[2])) )
       => last.ret = Exact_div(last.arg[1], last.arg[2])

\* C32: no thread holds event_mutex_ while it holds state_mutex_, shared or
\* exclusive: the listener invocations of submit_order, cancel_order,
\* update_position and update_balance are enqueued with the state lock
\* released.
C32_NoEnqueueUnderStateLockAsClaimed ==
    \A t \in Callers :
        event_mutex_ = t
            => state_mutex_.writer # t /\ state_mutex_.readers[t] = 0

\* C33: a fill changes the realized P&L (of the position, total and daily)
\* only when it closes part of a position: a SELL against a long position
\* or a BUY against a short one adds the closed quantity valued at the
\* weighted-average cost; a BUY at Q >= 0 and a SELL at Q <= 0 leave all
\* three as they were.
C33_RealizedOnlyOnCloseAsClaimed ==
    [][ (last'.op = "update_position" /\ fills' = fills + 1) =>
            LET trade == last'.arg
                before == position_of(trade.symbol)
                after == positions_'[trade.symbol]
                gain == IF trade.side = "SELL"
                        THEN Exact_mul(trade.quantity,
                                       trade.price - before.average_price)
                        ELSE Exact_mul(trade.quantity,
                                       before.average_price - trade.price)
                realized == IF \/ trade.side = "SELL" /\ before.quantity > 0
                               \/ trade.side = "BUY" /\ before.quantity < 0
                            THEN gain
                            ELSE 0
            IN  /\ after.realized_pnl = before.realized_pnl + realized
                /\ total_pnl_' = total_pnl_ + realized
                /\ daily_pnl_' = daily_pnl_ + realized ]_vars

\* C35: whatever submit_order, modify_order and cancel_order calls were
\* made, every order in the active-order map has a quantity above zero and,
\* when its type is LIMIT, a price above zero.
C35_StoredOrdersValidAsClaimed ==
    \A id \in DOMAIN active_orders_ :
        /\ active_orders_[id].quantity > 0
        /\ active_orders_[id].type = "LIMIT" => active_orders_[id].price > 0

\* The on_order_cancelled invocations in a queue
cancelled_events(queue) ==
    {i \in 1 .. Len(queue) : queue[i].kind = "on_order_cancelled"}

\* What C36 says of one step of the threads: a cancel_order that returns
\* true found the order in the map and has taken it out, having enqueued as
\* many on_order_cancelled invocations as `enqueued` tells; one that returns
\* false found no such order and enqueued nothing; the queue gains an
\* on_order_cancelled invocation only from a cancel_order holding the
\* order, one at a time; and get_active_orders returns no CANCELLED order.
cancel_linearizable(enqueued) ==
    /\ \A t \in Callers :
           ( /\ callers[t].op = "cancel_order"
             /\ callers[t].pc # "idle"
             /\ callers'[t].pc = "idle" )
           => IF callers'[t].ret[1]
              THEN /\ callers[t].arg[1] \in DOMAIN active_orders_
                   /\ callers[t].arg[1] \notin DOMAIN active_orders_'
                   /\ callers[t].pushed = enqueued
              ELSE /\ callers[t].arg[1] \notin DOMAIN active_orders_
                   /\ callers[t].pushed = 0
    /\ Cardinality(cancelled_events(event_queue_'))
           - Cardinality(cancelled_events(event_queue_))
       = Cardinality({t \in Callers :
                          /\ callers[t].op = "cancel_order"
                          /\ callers'[t].pushed = callers[t].pushed + 1
                          /\ callers[t].arg[1] \in DOMAIN active_orders_})
    /\ \A t \in Callers :
           ( /\ callers[t].op = "get_active_orders"
             /\ callers[t].pc # "idle"
             /\ callers'[t].pc = "idle" )
           => \A order \in callers'[t].ret[1] : order.status # "CANCELLED"

\* C36: with cancel_order(id), modify_order and get_active_orders running
\* on several threads at once, one cancel_order returns true for an active
\* order and enqueues exactly one on_order_cancelled event, every other
\* returns false and enqueues nothing, and no get_active_orders result
\* holds the order with status CANCELLED.
C36_CancelLinearizableAsClaimed ==
    [][cancel_linearizable(1)]_vars

\* C36 as the code has it: the one cancel_order that returns true enqueues
\* exactly one on_order_cancelled event when that callback is installed and
\* none when it is not.
C36_CancelLinearizableAmended ==
    [][cancel_linearizable(IF callbacks_.on_order_cancelled THEN 1 ELSE 0)]_vars

\* Two cancel_order calls for the same active order overlapped: one has
\* returned true after enqueuing its event, the other one, which called
\* while the first held the lock, still waits for the lock.
C36_Witness ==
    /\ callers["c1"].op = "cancel_order"
    /\ callers["c1"].pc = "idle"
    /\ callers["c1"].ret = <<TRUE>>
    /\ cancelled_events(event_queue_) # {}
    /\ "a" \notin DOMAIN active_orders_
    /\ callers["c2"].op = "cancel_order"
    /\ callers["c2"].arg = <<"a">>
    /\ "c2" \in state_mutex_.waiting

\* C37: whatever queries (get_statistics among them) and mutators waiting
\* for the exclusive lock are interleaved, every call of the TradingCore
\* eventually returns.
C37_EveryCallReturnsAsClaimed ==
    \A t \in Callers : (callers[t].pc # "idle") ~> (callers[t].pc = "idle")

\* C39: events_ is never touched by two threads at once: no schedule_once
\* or schedule_recurring runs its push_back while the timer thread is
\* inside its walk of events_, so every scheduled event is in the vector
\* after the call, the timer thread survives it, and no one-shot event is
\* delivered twice.
C39_EventsNotRacedAsClaimed ==
    /\ [][ Len(scheduled') = Len(scheduled) + 1
               => /\ ~(timer.alive /\ timer.pc = "iterate")
                  /\ Len(clock_'.events_) = Len(clock_.events_) + 1
                  /\ clock_'.events_[Len(clock_'.events_)].id = Len(scheduled')
                  /\ timer'.pc # "crashed" ]_vars
    /\ [](\A i, j \in 1 .. Len(delivered) :
              ( /\ delivered[i].id = delivered[j].id
                /\ ~scheduled[delivered[i].id].recurring )
              => i = j)

\* C34: every timestamp the engine stamps is read from the clock of the
\* TradingCore: with the core in BACKTEST mode the value stamped on an order
\* or an order book equals what now() of the core returns at that moment,
\* whatever the high_resolution_clock reads.
C34_StampsFromCoreClockAsClaimed ==
    \A i \in 1 .. Len(stamped) :
        stamped[i].mode_ = "BACKTEST" => stamped[i].timestamp = stamped[i].now

\* C38: no OrderBook is used after it has been destroyed: the market tick
\* callback never runs update_bid or update_ask through a reference whose
\* OrderBook remove_order_book, clear_all or initialize has destroyed.
C38_NoUseAfterDestroyAsClaimed ==
    /\ ~tick.used_destroyed
    /\ tick.pc # "crashed"

\* C40: a TradingCore from TradingCoreBuilder().build() without
\* with_risk_limits carries the limits initialize() installs when none are
\* set, and its submit_order accepts a valid LIMIT order on a flat position.
C40_BuilderDefaultLimitsAsClaimed ==
    /\ []( ( /\ last.op = "build"
             /\ last.arg.risk_limits_ = DefaultRiskLimits )
           => risk_limits_ = initialize_risk_limits(DefaultRiskLimits) )
    /\ [][ ( /\ last.op = "build"
             /\ last.arg.risk_limits_ = DefaultRiskLimits
             /\ last'.op = "submit_order"
             /\ validate_order(last'.arg)
             /\ last'.arg.type = "LIMIT"
             /\ last'.arg.trading_pair \notin DOMAIN positions_ )
           => /\ last'.ret = TRUE
              /\ last'.arg.client_order_id \in DOMAIN active_orders_' ]_vars

====
